---- MODULE Spec2Model ----
(***************************************************************************)
(* A model of the BLE medium BleV2 (advertising, scanning, the shared      *)
(* advertisement GATT server, the GATT slot store and the advertisement    *)
(* header) of the Nearby Connections library.                              *)
(*                                                                         *)
(* One action models one public operation of BleV2, executed under the     *)
(* medium mutex from its first to its last statement.  The platform layer  *)
(* (medium_, the GATT server object, the radio) answers every call with a  *)
(* result the action draws from the outcomes the call can have.            *)
(***************************************************************************)
EXTENDS Integers, Sequences, FiniteSets, TLC

(***************************************************************************)
(* Program constants and the input alphabet.                               *)
(***************************************************************************)
kMaxAdvertisementLength == 512

kCopresenceServiceUuid == "F3FE"

kFastAdvertisementServiceUuid == "FE2C"

\* The service ids the callers advertise and scan for.
NumServiceIds == 2

ServiceIdNames == <<"a", "b", "c">>

ServiceIds == {ServiceIdNames[i] : i \in 1..NumServiceIds}

\* StartScanning is also called with the empty service id.
ScanServiceIds == ServiceIds \cup {""}

\* fast_advertisement_service_uuid: "" selects the regular (GATT) path.
FastUuids == {"", kFastAdvertisementServiceUuid}

\* Lengths of the advertisement_bytes the callers pass: empty, exactly the
\* maximum and one byte over it.
PayloadSizes == {0, kMaxAdvertisementLength, kMaxAdvertisementLength + 1}

\* A caller's ByteArray; its content is identified by its length.
Payloads == {[kind |-> "raw", size |-> n] : n \in PayloadSizes}

\* The values Utils::GenerateRandomBytes can return for the dummy service id.
DummyServiceIds == {"d1", "d2"}

\* The values GenerateDeviceToken can return.
DeviceTokens == {"token"}

\* The ByteArray an invalid BleAdvertisement or header converts to.
EmptyByteArray == [kind |-> "empty"]

\* ByteArray::Empty
Empty(bytes) == bytes.kind = "empty" \/ (bytes.kind = "raw" /\ bytes.size = 0)

\* ByteArray::size of a caller's payload
Size(bytes) == IF bytes.kind = "raw" THEN bytes.size ELSE 0

(***************************************************************************)
(* bleutils: hashes and the slot's characteristic uuid.  SHA-256 is        *)
(* modelled as injective: the digest records what was hashed.              *)
(***************************************************************************)
GenerateHash(source) == [sha256 |-> source]

GenerateAdvertisementHash(advertisement_bytes) == [sha256 |-> advertisement_bytes]

GenerateAdvertisementUuid(slot) == [advertisement_slot |-> slot]

\* The medium advertisement wrapping the connections advertisement; an
\* invalid BleAdvertisement converts to the empty ByteArray.
BleAdvertisement(service_id_hash, data, device_token, valid) ==
    IF valid
    THEN [kind |-> "ble_advertisement", version |-> "kV2",
          socket_version |-> "kV2", service_id_hash |-> service_id_hash,
          data |-> data, device_token |-> device_token]
    ELSE EmptyByteArray

(***************************************************************************)
(* BloomFilter over a bit vector: Add sets the key's bit positions,        *)
(* MightContain tests them.  Different keys share positions, so false      *)
(* positives exist.                                                        *)
(***************************************************************************)
BloomPositions(key) ==
    CASE key = "a"  -> {0, 1}
      [] key = "b"  -> {1, 2}
      [] key = "d1" -> {2, 3}
      [] key = "d2" -> {0, 3}
      [] OTHER      -> {3, 4}

BloomFilterAdd(bits, key) == bits \cup BloomPositions(key)

MightContain(bits, key) == BloomPositions(key) \subseteq bits

(***************************************************************************)
(* State of the medium.                                                    *)
(***************************************************************************)
VARIABLES
    radio_,                        \* radio_.IsEnabled()
    medium_,                       \* the platform medium: validity, advertising, scanning
    advertising_service_ids_,      \* set of service ids
    scanned_service_ids_,          \* set of service ids
    gatt_advertisements_,          \* map slot -> (service id, bytes), as a set of entries
    hosted_gatt_characteristics_,  \* set of GattCharacteristic
    gatt_server_,                  \* the owned GattServer, or NullGattServer
    discovered_peripheral_tracker_,\* the tracker's registrations
    lost_alarm_,                   \* "null", "valid" or "cancelled"
    crashed,                       \* the process died in undefined behaviour
    last,                          \* the last public call: arguments, result, platform calls
    history,                       \* what the callers have observed so far
    advertisement_read_results_,   \* the AdvertisementReadResult the tracker holds
    mutex_,                        \* the recursive mutex: owner and depth
    serial_executor_,              \* the BLE thread: queued tasks and the running one
    alarm_executor_,               \* the alarm thread: the firing of the lost alarm
    task_runner                    \* a FakeTaskRunner with its FakeClock

vars == <<radio_, medium_, advertising_service_ids_, scanned_service_ids_,
          gatt_advertisements_, hosted_gatt_characteristics_, gatt_server_,
          discovered_peripheral_tracker_, lost_alarm_, crashed, last, history,
          advertisement_read_results_, mutex_, serial_executor_, alarm_executor_,
          task_runner>>

\* What the public operations of the medium leave alone.
threads == <<advertisement_read_results_, mutex_, serial_executor_, alarm_executor_>>

NullGattServer == [present |-> FALSE, valid |-> FALSE, characteristics |-> {}]

NoAdvertisement == [kind |-> "none"]

\* The fields of the object an operation works on (this->...), with the
\* platform calls it has made so far.
This ==
    [radio |-> radio_, medium |-> medium_,
     advertising_service_ids |-> advertising_service_ids_,
     scanned_service_ids |-> scanned_service_ids_,
     gatt_advertisements |-> gatt_advertisements_,
     hosted_gatt_characteristics |-> hosted_gatt_characteristics_,
     gatt_server |-> gatt_server_,
     tracker |-> discovered_peripheral_tracker_,
     lost_alarm |-> lost_alarm_,
     crashed |-> FALSE,
     calls |-> <<>>]

Call(this, name) == [this EXCEPT !.calls = Append(@, name)]

(***************************************************************************)
(* Containers.                                                             *)
(***************************************************************************)
\* flat_hash_map::insert: keeps the entry a key already has.
MapInsert(map, slot, service_id, bytes) ==
    IF \E e \in map : e.slot = slot
    THEN map
    ELSE map \cup {[slot |-> slot, service_id |-> service_id, bytes |-> bytes]}

\* flat_hash_set::insert / erase
\* An insert that is lost.
SetInsert_Nothing(set, element) == set

SetInsert(set, x) == set \cup {x}

\* An erase that removes nothing.
SetErase_Nothing(set, x) == set

SetErase(set, x) == set \ {x}

\* Every order in which an unordered container can be iterated.
RECURSIVE Orders(_)
Orders(set) ==
    IF set = {} THEN {<<>>}
    ELSE UNION {{<<e>> \o rest : rest \in Orders(set \ {e})} : e \in set}

(***************************************************************************)
(* Predicates of the medium.                                               *)
(***************************************************************************)
IsAvailableLocked(this) == this.medium.valid

\* A test that asks whether anything is advertising, not this service id.
IsAdvertisingLocked_Any(this, service_id) == this.advertising_service_ids # {}

IsAdvertisingLocked(this, service_id) ==
    service_id \in this.advertising_service_ids

\* A test that looks the service id up in the advertising set.
IsScanningLocked_WrongSet(this, service_id) ==
    service_id \in this.advertising_service_ids

IsScanningLocked(this, service_id) == service_id \in this.scanned_service_ids

IsAdvertisementGattServerRunningLocked(this) ==
    this.gatt_server.present /\ this.gatt_server.valid

Return(this, value) == [this |-> this, ret |-> value]

(***************************************************************************)
(* The platform GATT server: CreateCharacteristic adds a characteristic    *)
(* with no value, UpdateCharacteristic sets its value.  Either can fail    *)
(* and then changes nothing.                                               *)
(***************************************************************************)
GattServerCreateCharacteristic(gatt_server, characteristic) ==
    [gatt_server EXCEPT !.characteristics =
        {c \in @ : c.characteristic # characteristic}
            \cup {[characteristic |-> characteristic, value |-> EmptyByteArray]}]

GattServerUpdateCharacteristic(gatt_server, characteristic, value) ==
    [gatt_server EXCEPT !.characteristics =
        {c \in @ : c.characteristic # characteristic}
            \cup {[characteristic |-> characteristic, value |-> value]}]

\* The value a remote GATT client reads from the slot's characteristic.
CharacteristicValues(gatt_server, slot) ==
    {c.value : c \in {x \in gatt_server.characteristics :
                         x.characteristic.uuid = GenerateAdvertisementUuid(slot)}}

(***************************************************************************)
(* BleV2::StopAdvertisementGattServerLocked                                *)
(***************************************************************************)
StopAdvertisementGattServerLocked(this) ==
    IF ~IsAdvertisementGattServerRunningLocked(this)
    THEN Return(this, FALSE)
    ELSE Return([Call(this, "gatt_server_.reset")
                    EXCEPT !.gatt_server = NullGattServer], TRUE)

(***************************************************************************)
(* BleV2::GenerateAdvertisementCharacteristic: the result carries the      *)
(* medium (this) and the server the characteristic was created on.         *)
(***************************************************************************)
GenerateAdvertisementCharacteristic(this, slot, gatt_advertisement, gatt_server, env) ==
    LET gatt_characteristic ==
            [uuid |-> GenerateAdvertisementUuid(slot),
             service_uuid |-> kCopresenceServiceUuid,
             permission |-> "kRead", property |-> "kRead"]
        created == GattServerCreateCharacteristic(gatt_server, gatt_characteristic)
        updated == GattServerUpdateCharacteristic(created, gatt_characteristic,
                                                  gatt_advertisement)
        c1 == Call(this, "CreateCharacteristic")
        c2 == Call(c1, "UpdateCharacteristic")
    IN  IF ~env.create_ok
        THEN [this |-> c1, gatt_server |-> gatt_server, ret |-> FALSE]
        ELSE IF ~env.update_ok
        THEN [this |-> c2, gatt_server |-> created, ret |-> FALSE]
        ELSE [this |-> [c2 EXCEPT !.hosted_gatt_characteristics =
                               SetInsert(@, gatt_characteristic)],
              gatt_server |-> updated, ret |-> TRUE]

(***************************************************************************)
(* BleV2::StartAdvertisementGattServerLocked                               *)
(***************************************************************************)
StartAdvertisementGattServerLocked(this, service_id, gatt_advertisement, env) ==
    IF IsAdvertisementGattServerRunningLocked(this)
    THEN Return(this, FALSE)
    ELSE
    LET started == Call(this, "StartGattServer")
        gatt_server == [present |-> env.gatt_server # "null",
                        valid |-> env.gatt_server = "valid",
                        characteristics |-> {}]
        gen == GenerateAdvertisementCharacteristic(started, 0, gatt_advertisement,
                                                   gatt_server, env)
    IN  IF ~gatt_server.present \/ ~gatt_server.valid
        THEN Return(started, FALSE)
        ELSE IF ~gen.ret
        THEN Return(Call(gen.this, "gatt_server->Stop"), FALSE)
        ELSE Return([gen.this EXCEPT
                        !.gatt_advertisements =
                            MapInsert(@, 0, service_id, gatt_advertisement),
                        !.gatt_server = gen.gatt_server], TRUE)

(***************************************************************************)
(* BleV2::CreateAdvertisementHeader.  dummy_service_id is the random       *)
(* anonymizing seed; order is the order in which the unordered map         *)
(* gatt_advertisements_ is iterated.                                       *)
(***************************************************************************)
\* A fold that hashes each slot's bytes without the digest so far.
RECURSIVE HeaderFold_Unchained(_, _, _)
HeaderFold_Unchained(items, bloom_filter, advertisement_hash) ==
    IF items = <<>>
    THEN [bloom_filter |-> bloom_filter, advertisement_hash |-> advertisement_hash]
    ELSE HeaderFold_Unchained(Tail(items),
                              BloomFilterAdd(bloom_filter, Head(items).service_id),
                              GenerateAdvertisementHash(
                                  <<EmptyByteArray, Head(items).bytes>>))

RECURSIVE HeaderFold(_, _, _)
HeaderFold(items, bloom_filter, advertisement_hash) ==
    IF items = <<>>
    THEN [bloom_filter |-> bloom_filter, advertisement_hash |-> advertisement_hash]
    ELSE LET item == Head(items)
             advertisement_bodies == <<advertisement_hash, item.bytes>>
         IN  HeaderFold(Tail(items),
                        BloomFilterAdd(bloom_filter, item.service_id),
                        GenerateAdvertisementHash(advertisement_bodies))

\* The entries of the map in the iteration order slot_order gives the slots.
ItemsInOrder(map, slot_order) ==
    LET present == SelectSeq(slot_order, LAMBDA slot : \E e \in map : e.slot = slot)
    IN  [i \in 1..Len(present) |-> CHOOSE e \in map : e.slot = present[i]]

BleAdvertisementHeader(num_slots, bloom_filter, advertisement_hash, valid) ==
    IF valid
    THEN [kind |-> "header", version |-> "kV2", extended_advertisement |-> FALSE,
          num_slots |-> num_slots, service_id_bloom_filter |-> bloom_filter,
          advertisement_hash |-> advertisement_hash, psm |-> 0]
    ELSE EmptyByteArray

\* A header that counts the advertising service ids instead of the slots.
CreateAdvertisementHeader_CountsAdvertisers(this, env) ==
    LET folded == HeaderFold(ItemsInOrder(this.gatt_advertisements, env.slot_order),
                             BloomFilterAdd({}, env.dummy_service_id),
                             GenerateAdvertisementHash(env.dummy_service_id))
    IN  BleAdvertisementHeader(Cardinality(this.advertising_service_ids),
                               folded.bloom_filter, folded.advertisement_hash,
                               env.header_valid)

CreateAdvertisementHeader(this, env) ==
    LET folded == HeaderFold(ItemsInOrder(this.gatt_advertisements, env.slot_order),
                             BloomFilterAdd({}, env.dummy_service_id),
                             GenerateAdvertisementHash(env.dummy_service_id))
    IN  BleAdvertisementHeader(Cardinality(this.gatt_advertisements),
                               folded.bloom_filter, folded.advertisement_hash,
                               env.header_valid)

(***************************************************************************)
(* The platform medium's advertising calls.  A failed call changes nothing.*)
(***************************************************************************)
MediumStartAdvertising(this, advertising_data, scan_response_data, env) ==
    LET called == Call(this, "medium_.StartAdvertising")
    IN  IF env.advertise_ok
        THEN Return([called EXCEPT !.medium.advertising =
                        [kind |-> "advertising",
                         advertising_data |-> advertising_data,
                         scan_response_data |-> scan_response_data]], TRUE)
        ELSE Return(called, FALSE)

MediumStopAdvertising(this, env) ==
    LET called == Call(this, "medium_.StopAdvertising")
    IN  IF env.stop_ok
        THEN Return([called EXCEPT !.medium.advertising = NoAdvertisement], TRUE)
        ELSE Return(called, FALSE)

(***************************************************************************)
(* BleV2::StartAdvertising.  The power level is handed to the platform     *)
(* unchanged and nothing else depends on it, so it is not an argument here.*)
(***************************************************************************)
\* A length check that also refuses a payload of exactly the maximum length.
AdvertisementTooLong_AtMax(advertisement_bytes) ==
    Size(advertisement_bytes) >= kMaxAdvertisementLength

\* advertisement_bytes.size() > kMaxAdvertisementLength
AdvertisementTooLong(advertisement_bytes) ==
    Size(advertisement_bytes) > kMaxAdvertisementLength

\* A regular path that keeps a GATT server it finds running.
StartAdvertisingRegular_KeepsServer(this, service_id, medium_advertisement_bytes, env) ==
    LET started == IF ~IsAdvertisementGattServerRunningLocked(this)
                   THEN StartAdvertisementGattServerLocked(
                            this, service_id, medium_advertisement_bytes, env)
                   ELSE Return(this, TRUE)
        advertisement_header_bytes == CreateAdvertisementHeader(started.this, env)
    IN  IF ~started.ret
        THEN [this |-> started.this, ret |-> FALSE, data |-> EmptyByteArray]
        ELSE IF Empty(advertisement_header_bytes)
        THEN [this |-> StopAdvertisementGattServerLocked(started.this).this,
              ret |-> FALSE, data |-> EmptyByteArray]
        ELSE [this |-> started.this, ret |-> TRUE,
              data |-> advertisement_header_bytes]

\* The regular path, up to the platform call.
StartAdvertisingRegular(this, service_id, medium_advertisement_bytes, env) ==
    LET stopped == StopAdvertisementGattServerLocked(this).this
        started == IF ~IsAdvertisementGattServerRunningLocked(stopped)
                   THEN StartAdvertisementGattServerLocked(
                            stopped, service_id, medium_advertisement_bytes, env)
                   ELSE Return(stopped, TRUE)
        advertisement_header_bytes == CreateAdvertisementHeader(started.this, env)
    IN  IF ~started.ret
        THEN [this |-> started.this, ret |-> FALSE, data |-> EmptyByteArray]
        ELSE IF Empty(advertisement_header_bytes)
        THEN [this |-> StopAdvertisementGattServerLocked(started.this).this,
              ret |-> FALSE, data |-> EmptyByteArray]
        ELSE [this |-> started.this, ret |-> TRUE,
              data |-> advertisement_header_bytes]

\* The checks StartAdvertising makes before it does anything.
StartAdvertisingRefuses(this, service_id, advertisement_bytes) ==
    \/ Empty(advertisement_bytes)
    \/ AdvertisementTooLong(advertisement_bytes)
    \/ IsAdvertisingLocked(this, service_id)
    \/ ~this.radio
    \/ ~IsAvailableLocked(this)

StartAdvertising(this, service_id, advertisement_bytes, fast_advertisement_service_uuid, env) ==
    IF StartAdvertisingRefuses(this, service_id, advertisement_bytes)
    THEN Return(this, FALSE)
    ELSE
    LET is_fast_advertisement == fast_advertisement_service_uuid # ""
        service_id_hash == GenerateHash(service_id)
        medium_advertisement_bytes ==
            BleAdvertisement(IF is_fast_advertisement
                             THEN EmptyByteArray ELSE service_id_hash,
                             advertisement_bytes, env.device_token,
                             env.advertisement_valid)
        regular == StartAdvertisingRegular(this, service_id,
                                           medium_advertisement_bytes, env)
        prepared == IF is_fast_advertisement THEN this ELSE regular.this
        advertising_data ==
            [is_connectable |-> TRUE,
             service_uuids |-> IF is_fast_advertisement
                               THEN {fast_advertisement_service_uuid} ELSE {}]
        scan_response_data ==
            IF is_fast_advertisement
            THEN [is_connectable |-> TRUE, service_uuids |-> {},
                  service_data |-> {[uuid |-> fast_advertisement_service_uuid,
                                     data |-> medium_advertisement_bytes]}]
            ELSE [is_connectable |-> TRUE,
                  service_uuids |-> {kCopresenceServiceUuid},
                  service_data |-> {[uuid |-> kCopresenceServiceUuid,
                                     data |-> regular.data]}]
        advertised == MediumStartAdvertising(prepared, advertising_data,
                                             scan_response_data, env)
    IN  IF Empty(medium_advertisement_bytes) THEN Return(this, FALSE)
        ELSE IF ~is_fast_advertisement /\ ~regular.ret
        THEN Return(regular.this, FALSE)
        ELSE IF ~advertised.ret
        THEN Return(StopAdvertisementGattServerLocked(advertised.this).this, FALSE)
        ELSE Return([advertised.this EXCEPT !.advertising_service_ids =
                        SetInsert(@, service_id)], TRUE)

(***************************************************************************)
(* BleV2::StopAdvertising.  With hosted characteristics and no GATT        *)
(* server object the loop dereferences a null gatt_server_: undefined      *)
(* behaviour, which either kills the process there or lets the call go on. *)
(***************************************************************************)
RECURSIVE ClearCharacteristics(_, _, _)
ClearCharacteristics(this, characteristics, env) ==
    IF characteristics = {} THEN this
    ELSE LET characteristic == CHOOSE c \in characteristics : TRUE
             called == Call(this, "UpdateCharacteristic")
             next == IF env.update_ok
                     THEN [called EXCEPT !.gatt_server =
                              GattServerUpdateCharacteristic(@, characteristic,
                                                             EmptyByteArray)]
                     ELSE called
         IN  ClearCharacteristics(next, characteristics \ {characteristic}, env)

StopAdvertising(this, service_id, env) ==
    IF ~IsAdvertisingLocked(this, service_id) THEN Return(this, FALSE)
    ELSE
    LET cleared == [this EXCEPT !.gatt_advertisements = {}]
        no_incoming_ble_sockets == TRUE
        released ==
            IF cleared.hosted_gatt_characteristics # {}
            THEN IF ~cleared.gatt_server.present
                 THEN IF env.null_dereference = "crash"
                      THEN [cleared EXCEPT !.crashed = TRUE]
                      ELSE [cleared EXCEPT !.hosted_gatt_characteristics = {}]
                 ELSE [ClearCharacteristics(cleared,
                           cleared.hosted_gatt_characteristics, env)
                          EXCEPT !.hosted_gatt_characteristics = {}]
            ELSE IF no_incoming_ble_sockets
            THEN StopAdvertisementGattServerLocked(cleared).this
            ELSE cleared
        erased == [released EXCEPT !.advertising_service_ids =
                      SetErase(@, service_id)]
    IN  IF released.crashed THEN Return(released, FALSE)
        ELSE MediumStopAdvertising(erased, env)

(***************************************************************************)
(* DiscoveredPeripheralTracker: the registrations, one per service id.     *)
(* StartTracking of a registered service id is refused.                    *)
(***************************************************************************)
StartTracking(tracker, service_id, fast_advertisement_service_uuid) ==
    IF \E r \in tracker.registrations : r.service_id = service_id
    THEN tracker
    ELSE [tracker EXCEPT !.registrations = @ \cup
             {[service_id |-> service_id,
               fast_advertisement_service_uuid |-> fast_advertisement_service_uuid]}]

StopTracking(tracker, service_id) ==
    [tracker EXCEPT !.registrations = {r \in @ : r.service_id # service_id},
                    !.found = @ \ {service_id}]

TrackedServiceIds(tracker) == {r.service_id : r \in tracker.registrations}

(***************************************************************************)
(* The platform medium's scanning calls.  A failed call changes nothing.   *)
(***************************************************************************)
MediumStartScanning(this, scanning_service_uuids, env) ==
    LET called == Call(this, "medium_.StartScanning")
    IN  IF env.scan_ok
        THEN Return([called EXCEPT !.medium.scanning =
                        [active |-> TRUE, service_uuids |-> scanning_service_uuids]],
                    TRUE)
        ELSE Return(called, FALSE)

MediumStopScanning(this, env) ==
    LET called == Call(this, "medium_.StopScanning")
    IN  IF env.stop_ok
        THEN Return([called EXCEPT !.medium.scanning =
                        [active |-> FALSE, service_uuids |-> <<>>]], TRUE)
        ELSE Return(called, FALSE)

(***************************************************************************)
(* BleV2::StartScanning                                                    *)
(***************************************************************************)
\* The test inverted: the platform scan is started by every scanner but the
\* first.
ScanAlreadyActive_Inverted(this) == this.scanned_service_ids = {}

\* if (!scanned_service_ids_.empty()): the scan has been activated.
ScanAlreadyActive(this) == this.scanned_service_ids # {}

StartScanning(this, service_id, fast_advertisement_service_uuid, env) ==
    IF service_id = "" THEN Return(this, FALSE)
    ELSE IF IsScanningLocked(this, service_id) THEN Return(this, FALSE)
    ELSE IF ~this.radio THEN Return(this, FALSE)
    ELSE IF ~IsAvailableLocked(this) THEN Return(this, FALSE)
    ELSE
    LET tracking == [this EXCEPT !.tracker =
                        StartTracking(@, service_id, fast_advertisement_service_uuid)]
        inserted == [tracking EXCEPT !.scanned_service_ids = SetInsert(@, service_id)]
        scanning_service_uuids ==
            IF fast_advertisement_service_uuid # ""
            THEN <<fast_advertisement_service_uuid>>
            ELSE <<kCopresenceServiceUuid>>
        scanned == MediumStartScanning(inserted, scanning_service_uuids, env)
    IN  IF ScanAlreadyActive(tracking)
        THEN Return(inserted, TRUE)
        ELSE IF ~scanned.ret
        THEN Return([scanned.this EXCEPT
                        !.tracker = StopTracking(@, service_id),
                        !.scanned_service_ids = SetErase(@, service_id)], FALSE)
        ELSE Return([Call(scanned.this, "lost_alarm_ = CancelableAlarm")
                        EXCEPT !.lost_alarm = "valid"], TRUE)

(***************************************************************************)
(* BleV2::StopScanning.  lost_alarm_->IsValid() on a null lost_alarm_ is   *)
(* undefined behaviour.                                                    *)
(***************************************************************************)
\* The test left out: the platform scan is stopped with the first scanner.
StillHasScanner_Never(this) == FALSE

\* The test inverted: the platform scan is stopped while others still scan.
StillHasScanner_Inverted(this) == this.scanned_service_ids = {}

\* if (!scanned_service_ids_.empty()): still has scanner.
StillHasScanner(this) == this.scanned_service_ids # {}

\* The registration left with the tracker.
StopScanning_KeepsTracking(this, service_id, env) ==
    Return([this EXCEPT !.scanned_service_ids = SetErase(@, service_id)], TRUE)

StopScanning(this, service_id, env) ==
    IF ~IsScanningLocked(this, service_id) THEN Return(this, FALSE)
    ELSE
    LET erased == [this EXCEPT !.tracker = StopTracking(@, service_id),
                               !.scanned_service_ids = SetErase(@, service_id)]
        cancelled == IF erased.lost_alarm = "valid"
                     THEN [Call(erased, "lost_alarm_->Cancel")
                              EXCEPT !.lost_alarm = "cancelled"]
                     ELSE erased
    IN  IF StillHasScanner(erased) THEN Return(erased, TRUE)
        ELSE IF erased.lost_alarm = "null" /\ env.null_dereference = "crash"
        THEN Return([erased EXCEPT !.crashed = TRUE], FALSE)
        ELSE MediumStopScanning(cancelled, env)

(***************************************************************************)
(* mediums::AdvertisementReadResult: the advertisements read so far, by    *)
(* slot, and the status of the last read.  An advertisement is added to a  *)
(* slot once; the status is overwritten by every record.                   *)
(***************************************************************************)
\* No result: the std::unique_ptr passed to a first fetch is null.
NullAdvertisementReadResult ==
    [present |-> FALSE, advertisements |-> {}, last_read_status |-> "kUnknown"]

\* std::make_unique<mediums::AdvertisementReadResult>()
NewAdvertisementReadResult ==
    [present |-> TRUE, advertisements |-> {}, last_read_status |-> "kUnknown"]

HasAdvertisement(result, slot) == \E a \in result.advertisements : a.slot = slot

AddAdvertisement(result, slot, bytes) ==
    IF HasAdvertisement(result, slot) THEN result
    ELSE [result EXCEPT !.advertisements = @ \cup {[slot |-> slot, bytes |-> bytes]}]

RecordLastReadStatus(result, success) ==
    [result EXCEPT !.last_read_status = IF success THEN "kSuccess" ELSE "kFailure"]

SlotsRead(result) == {a.slot : a \in result.advertisements}

(***************************************************************************)
(* The remote GATT server, as one fetch finds it: each slot's              *)
(* characteristic is absent, present but unreadable, or readable; a        *)
(* readable one holds the remote's current advertisement for the slot.     *)
(***************************************************************************)
\* The slots a remote device can host characteristics for.
RemoteSlots == {0, 1, 2}

CharacteristicStates == {"absent", "unreadable", "readable"}

\* The remote's advertisements change over time.
Generations == {1, 2}

RemoteCharacteristic(env, slot) ==
    IF slot \in DOMAIN env.remote THEN env.remote[slot] ELSE "absent"

RemoteBytes(env, slot) == [kind |-> "remote", slot |-> slot, generation |-> env.generation]

(***************************************************************************)
(* BleV2::InternalReadAdvertisementFromGattServerLocked.  A fetch carries  *)
(* the result, read_success and the calls made on the GATT client and on   *)
(* the result.                                                             *)
(***************************************************************************)
Fetch(advertisement_read_result) ==
    [advertisement_read_result |-> advertisement_read_result,
     read_success |-> TRUE, calls |-> <<>>]

GattCall(fetch, call) == [fetch EXCEPT !.calls = Append(@, call)]

\* advertisement_read_result->RecordLastReadStatus(success)
FetchRecordLastReadStatus(fetch, success) ==
    [GattCall(fetch, [name |-> "RecordLastReadStatus", ok |-> success])
        EXCEPT !.advertisement_read_result = RecordLastReadStatus(@, success)]

\* The test left out: every slot is read again.
SlotAlreadyRead_Never(fetch, slot) == FALSE

\* if (advertisement_read_result->HasAdvertisement(slot)) continue;
SlotAlreadyRead(fetch, slot) ==
    HasAdvertisement(fetch.advertisement_read_result, slot)

\* A missing characteristic counted as a failed read.
CharacteristicMissing_Fails(fetch) == [fetch EXCEPT !.read_success = FALSE]

\* if (!gatt_characteristic.has_value()) continue;
CharacteristicMissing(fetch) == fetch

\* The body of the loop over the slots.
ReadSlot(fetch, slot, env) ==
    IF SlotAlreadyRead(fetch, slot) THEN fetch
    ELSE
    LET state == RemoteCharacteristic(env, slot)
        looked == GattCall(fetch, [name |-> "GetCharacteristic", slot |-> slot,
                                   ok |-> state # "absent"])
        read == GattCall(looked, [name |-> "ReadCharacteristic", slot |-> slot,
                                  ok |-> state = "readable"])
    IN  IF state = "absent" THEN CharacteristicMissing(looked)
        ELSE IF state = "readable"
        THEN [read EXCEPT !.advertisement_read_result =
                 AddAdvertisement(@, slot, RemoteBytes(env, slot))]
        ELSE [read EXCEPT !.read_success = FALSE]

\* A loop that gives up at the first read that fails.
RECURSIVE ReadSlots_StopsAtFailure(_, _, _, _)
ReadSlots_StopsAtFailure(fetch, slot, num_slots, env) ==
    IF slot < num_slots /\ fetch.read_success
    THEN ReadSlots_StopsAtFailure(ReadSlot(fetch, slot, env), slot + 1, num_slots, env)
    ELSE fetch

RECURSIVE ReadSlots(_, _, _, _)
\* for (int slot = 0; slot < num_slots; ++slot)
ReadSlots(fetch, slot, num_slots, env) ==
    IF slot < num_slots
    THEN ReadSlots(ReadSlot(fetch, slot, env), slot + 1, num_slots, env)
    ELSE fetch

InternalReadAdvertisementFromGattServerLocked(fetch, num_slots, env) ==
    LET connected == GattCall(fetch, [name |-> "ConnectToGattServer",
                                      ok |-> env.gatt_client = "valid"])
        discovered == GattCall(connected, [name |-> "DiscoverService",
                                           ok |-> env.discover_ok])
        read == ReadSlots(discovered, 0, num_slots, env)
        disconnected == GattCall(read, [name |-> "Disconnect", ok |-> TRUE])
    IN  IF env.gatt_client # "valid"
        THEN FetchRecordLastReadStatus(connected, FALSE)
        ELSE IF ~env.discover_ok
        THEN FetchRecordLastReadStatus(discovered, FALSE)
        ELSE FetchRecordLastReadStatus(disconnected, disconnected.read_success)

(***************************************************************************)
(* BleV2::ProcessFetchGattAdvertisementsRequest                            *)
(***************************************************************************)
\* The checks that return the result before any GATT call.
FetchRefuses(this, peripheral_valid) ==
    \/ ~peripheral_valid
    \/ ~this.radio
    \/ ~IsAvailableLocked(this)

\* A fetch that always starts from a fresh result.
ProcessFetchGattAdvertisementsRequest_AlwaysFresh(this, peripheral_valid, num_slots, advertisement_read_result, env) ==
    LET fetch == Fetch(NewAdvertisementReadResult)
    IN  IF FetchRefuses(this, peripheral_valid) THEN fetch
        ELSE InternalReadAdvertisementFromGattServerLocked(fetch, num_slots, env)

ProcessFetchGattAdvertisementsRequest(this, peripheral_valid, num_slots, advertisement_read_result, env) ==
    LET fetch == Fetch(IF advertisement_read_result.present
                       THEN advertisement_read_result
                       ELSE NewAdvertisementReadResult)
    IN  IF FetchRefuses(this, peripheral_valid) THEN fetch
        ELSE InternalReadAdvertisementFromGattServerLocked(fetch, num_slots, env)

\* A thread that is not running a task.
IdleThread == [pc |-> "idle"]

(***************************************************************************)
(* BleV2::RunOnBleThread: serial_executor_.Execute(runnable).  The         *)
(* executor's one thread runs the tasks in the order they were handed in.  *)
(***************************************************************************)
\* The newest task run first.
RunOnBleThread_Front(executor, runnable) ==
    [executor EXCEPT !.queue = <<runnable>> \o @]

RunOnBleThread(executor, runnable) ==
    [executor EXCEPT !.queue = Append(@, runnable)]

(***************************************************************************)
(* FakeTaskRunner, with the FakeClock it is constructed on.  A task is     *)
(* known by the id of its post; a task may, when it runs, post one delayed *)
(* task of its own (its child).                                            *)
(***************************************************************************)
\* FakeTaskRunner task_runner{&clock, 1}: the concurrency count
count_ == 1

\* The tasks the callers post, the delays they ask for, the steps by which
\* they move the clock, and the clock's last instant.
MaxTasks == 2

MaxTime == 2

Delays == {1, 2}

\* The delay of a task that posts a child, and of the child.
ChildDelay == 1

FastForwards == {1, 2}

Modes == {"kActive", "kPending"}

\* FakeTaskRunner(FakeClock* clock, uint32_t count); mode_ = Mode::kActive
NewFakeTaskRunner ==
    [mode_ |-> "kActive", current_id_ |-> 0, clock_ |-> 0,
     pending_tasks_ |-> <<>>, queued_tasks_ |-> <<>>,
     queued_delayed_tasks_ |-> {}, threads_ |-> {}]

GenerateId(runner) == runner.current_id_ + 1

\* The task a caller posts: delay 0 for PostTask, whose tasks remember the
\* mode they were posted in; a delayed task is put in timer control.
NewTask(runner, delay, reposts) ==
    [id |-> GenerateId(runner), delay |-> delay, reposts |-> reposts,
     child |-> FALSE,
     posted_in |-> IF delay = 0 THEN runner.mode_ ELSE "timer"]

\* The task a running task posts.
ChildTask(task) ==
    [id |-> task.id, delay |-> task.delay, reposts |-> FALSE,
     child |-> TRUE, posted_in |-> "timer"]

\* A Run that puts the task in front of the queued ones.
TaskRunnerRun_Front(runner, task) ==
    [runner EXCEPT !.queued_tasks_ = <<task>> \o @]

\* FakeTaskRunner::Run: the task joins the tasks queued for the threads.
TaskRunnerRun(runner, task) ==
    [runner EXCEPT !.queued_tasks_ = Append(@, task)]

\* A hand-over that runs the task whatever the mode.
RunOrHold_AlwaysRuns(runner, task) == TaskRunnerRun(runner, task)

\* Active mode runs a task, pending mode holds it in pending_tasks_.
RunOrHold(runner, task) ==
    IF runner.mode_ = "kActive"
    THEN TaskRunnerRun(runner, task)
    ELSE [runner EXCEPT !.pending_tasks_ = Append(@, task)]

\* FakeTaskRunner::PostTask
PostTask(runner, task) ==
    RunOrHold([runner EXCEPT !.current_id_ = task.id], task)

\* A timer that is due one instant early.
TimerDue_Early(now, delay) == now + delay - 1

\* The instant a timer started at now with a delay goes off.
TimerDue(now, delay) == now + delay

\* FakeTaskRunner::PostDelayedTask: the task is put in timer control.
PostDelayedTask(runner, task) ==
    [runner EXCEPT
        !.current_id_ = IF task.child THEN @ ELSE task.id,
        !.queued_delayed_tasks_ =
            @ \cup {[task |-> task, posted_at |-> runner.clock_,
                     due |-> TimerDue(runner.clock_, task.delay)]}]

\* A timer goes off: the task leaves the delayed tasks and is run or held.
TimerFires(runner, timer) ==
    RunOrHold([runner EXCEPT !.queued_delayed_tasks_ = @ \ {timer}], timer.task)

RECURSIVE TimersFire(_, _)
TimersFire(runner, timers) ==
    IF timers = <<>> THEN runner
    ELSE TimersFire(TimerFires(runner, Head(timers)), Tail(timers))

\* The timers that have gone off once the clock shows now.
DueTimers(runner, now) == {t \in runner.queued_delayed_tasks_ : t.due <= now}

\* FakeClock::FastForward: the clock moves and the timers that are due go
\* off, in the order the clock visits them.
FastForward(runner, duration, order) ==
    TimersFire([runner EXCEPT !.clock_ = @ + duration], order)

\* FakeTaskRunner::InternalRunNextPendingTask
InternalRunNextPendingTask(runner) ==
    IF runner.pending_tasks_ = <<>> THEN runner
    ELSE TaskRunnerRun([runner EXCEPT !.pending_tasks_ = Tail(@)],
                       Head(runner.pending_tasks_))

\* FakeTaskRunner::RunNextPendingTask
RunNextPendingTask(runner) == InternalRunNextPendingTask(runner)

RECURSIVE RunAllPendingTasks(_)
\* FakeTaskRunner::RunAllPendingTasks
RunAllPendingTasks(runner) ==
    IF runner.pending_tasks_ = <<>> THEN runner
    ELSE RunAllPendingTasks(InternalRunNextPendingTask(runner))

\* With a concurrency count of one, one thread runs the queued tasks.
ThreadAvailable(runner) == Cardinality(runner.threads_) < count_

\* FakeTaskRunner::GetAllPendingTasks, GetAllDelayedTasks
GetAllPendingTasks(runner) == runner.pending_tasks_

GetAllDelayedTasks(runner) == {t.task : t \in runner.queued_delayed_tasks_}

(***************************************************************************)
(* The answers of the platform and of the random generators to one call.   *)
(***************************************************************************)
\* The slots this medium publishes advertisements in.
AdvertisementSlots == {0}

\* The first platform answer that fails in a StartAdvertising, if any: every
\* call before it succeeds, and no call after it is reached.
StartAdvertisingFailures ==
    {"none", "advertisement_invalid", "gatt_server_null", "gatt_server_invalid",
     "create_characteristic", "update_characteristic", "header_invalid",
     "medium_start_advertising"}

StartAdvertisingEnv(failure, device_token, dummy_service_id, slot_order) ==
    [advertisement_valid |-> failure # "advertisement_invalid",
     device_token |-> device_token,
     gatt_server |-> CASE failure = "gatt_server_null" -> "null"
                       [] failure = "gatt_server_invalid" -> "invalid"
                       [] OTHER -> "valid",
     create_ok |-> failure # "create_characteristic",
     update_ok |-> failure # "update_characteristic",
     dummy_service_id |-> dummy_service_id, slot_order |-> slot_order,
     header_valid |-> failure # "header_invalid",
     advertise_ok |-> failure # "medium_start_advertising"]

StopAdvertisingEnvs ==
    [update_ok : BOOLEAN, stop_ok : BOOLEAN, null_dereference : {"crash", "continue"}]

StartScanningEnvs == [scan_ok : BOOLEAN]

StopScanningEnvs == [stop_ok : BOOLEAN, null_dereference : {"crash", "continue"}]

(***************************************************************************)
(* What the callers have observed.  started: the service ids for which a   *)
(* StartAdvertising has returned true with no StopAdvertising call since;  *)
(* recent: those whose most recent StartAdvertising returned true, with no *)
(* StopAdvertising call since; scan_starts: the platform StartScanning     *)
(* calls made since the scanning set was last empty.                       *)
(***************************************************************************)
MaxScanStarts == 3

Saturate(n) == IF n < MaxScanStarts THEN n ELSE MaxScanStarts

Count(calls, name) == Cardinality({i \in 1..Len(calls) : calls[i] = name})

ScanStarts(r) ==
    IF r.this.scanned_service_ids = {} THEN 0
    ELSE Saturate(history.scan_starts + Count(r.this.calls, "medium_.StartScanning"))

\* The state an operation leaves, and the record of the call.
Commit(r, op, service_id, size, fast_advertisement_service_uuid, failure) ==
    /\ medium_' = r.this.medium
    /\ advertising_service_ids_' = r.this.advertising_service_ids
    /\ scanned_service_ids_' = r.this.scanned_service_ids
    /\ gatt_advertisements_' = r.this.gatt_advertisements
    /\ hosted_gatt_characteristics_' = r.this.hosted_gatt_characteristics
    /\ gatt_server_' = r.this.gatt_server
    /\ discovered_peripheral_tracker_' = r.this.tracker
    /\ lost_alarm_' = r.this.lost_alarm
    /\ crashed' = r.this.crashed
    /\ last' = [op |-> op, service_id |-> service_id, size |-> size,
                fast_advertisement_service_uuid |-> fast_advertisement_service_uuid,
                failure |-> failure, ret |-> r.ret,
                returned |-> ~r.this.crashed, calls |-> r.this.calls]
    /\ UNCHANGED radio_
    /\ UNCHANGED threads
    /\ UNCHANGED task_runner

Init ==
    /\ radio_ = TRUE
    /\ medium_ = [valid |-> TRUE, advertising |-> NoAdvertisement,
                  scanning |-> [active |-> FALSE, service_uuids |-> <<>>]]
    /\ advertising_service_ids_ = {}
    /\ scanned_service_ids_ = {}
    /\ gatt_advertisements_ = {}
    /\ hosted_gatt_characteristics_ = {}
    /\ gatt_server_ = NullGattServer
    /\ discovered_peripheral_tracker_ = [registrations |-> {}, found |-> {}]
    /\ lost_alarm_ = "null"
    /\ crashed = FALSE
    /\ last = [op |-> "BleV2", service_id |-> "", size |-> 0,
               fast_advertisement_service_uuid |-> "", failure |-> "none",
               ret |-> TRUE, returned |-> TRUE, calls |-> <<>>]
    /\ history = [started |-> {}, recent |-> {}, scan_starts |-> 0,
                  scanning |-> {}, found_arrived |-> 0, found_started |-> 0,
                  posted |-> {}, ran |-> <<>>]
    /\ advertisement_read_results_ = NullAdvertisementReadResult
    /\ mutex_ = [owner |-> "none", count |-> 0]
    /\ serial_executor_ = [queue |-> <<>>, running |-> IdleThread]
    /\ alarm_executor_ = IdleThread
    /\ task_runner = NewFakeTaskRunner

(***************************************************************************)
(* The public operations, as the callers invoke them.                      *)
(***************************************************************************)
\* The platform answers a StartAdvertising reaches: none when it is refused,
\* no GATT answer on the fast path; the dummy service id only where a header
\* is built.
ReachedFailures(this, service_id, advertisement_bytes, fast_advertisement_service_uuid) ==
    IF StartAdvertisingRefuses(this, service_id, advertisement_bytes)
    THEN {"none"}
    ELSE IF fast_advertisement_service_uuid # ""
    THEN {"none", "advertisement_invalid", "medium_start_advertising"}
    ELSE StartAdvertisingFailures

ReachedDummyServiceIds(fast_advertisement_service_uuid, failure) ==
    IF /\ fast_advertisement_service_uuid = ""
       /\ failure \in {"none", "medium_start_advertising"}
    THEN DummyServiceIds
    ELSE {CHOOSE d \in DummyServiceIds : TRUE}

CallStartAdvertising ==
    \E service_id \in ServiceIds, advertisement_bytes \in Payloads,
       fast_advertisement_service_uuid \in FastUuids :
      \E failure \in ReachedFailures(This, service_id, advertisement_bytes,
                                     fast_advertisement_service_uuid) :
        \E dummy_service_id \in ReachedDummyServiceIds(
                                    fast_advertisement_service_uuid, failure),
           device_token \in DeviceTokens, slot_order \in Orders(AdvertisementSlots) :
          LET env == StartAdvertisingEnv(failure, device_token, dummy_service_id,
                                         slot_order)
              r == StartAdvertising(This, service_id, advertisement_bytes,
                                    fast_advertisement_service_uuid, env)
          IN  /\ ~crashed /\ mutex_.owner = "none"
              /\ Commit(r, "StartAdvertising", service_id,
                        Size(advertisement_bytes),
                        fast_advertisement_service_uuid, failure)
              /\ history' = [history EXCEPT
                     !.started = IF r.ret THEN @ \cup {service_id} ELSE @,
                     !.recent = IF r.ret THEN @ \cup {service_id}
                                ELSE @ \ {service_id}]

CallStopAdvertising ==
    \E service_id \in ServiceIds, env \in StopAdvertisingEnvs :
        LET r == StopAdvertising(This, service_id, env)
        IN  /\ ~crashed /\ mutex_.owner = "none"
            /\ Commit(r, "StopAdvertising", service_id, 0, "", "none")
            /\ history' = [history EXCEPT !.started = @ \ {service_id},
                                          !.recent = @ \ {service_id}]

CallStartScanning ==
    \E service_id \in ScanServiceIds,
       fast_advertisement_service_uuid \in FastUuids, env \in StartScanningEnvs :
        LET r == StartScanning(This, service_id, fast_advertisement_service_uuid, env)
        IN  /\ ~crashed /\ mutex_.owner = "none"
            /\ Commit(r, "StartScanning", service_id, 0,
                      fast_advertisement_service_uuid,
                      IF env.scan_ok THEN "none" ELSE "medium_start_scanning")
            /\ history' = [history EXCEPT
                   !.scan_starts = ScanStarts(r),
                   !.scanning = IF r.ret THEN @ \cup {service_id} ELSE @]

CallStopScanning ==
    \E service_id \in ScanServiceIds, env \in StopScanningEnvs :
        LET r == StopScanning(This, service_id, env)
        IN  /\ ~crashed /\ mutex_.owner = "none"
            /\ Commit(r, "StopScanning", service_id, 0, "", "none")
            /\ history' = [history EXCEPT
                   !.scan_starts = ScanStarts(r),
                   !.scanning = IF r.this.crashed THEN @ ELSE @ \ {service_id}]

(***************************************************************************)
(* The environment: the user switches the Bluetooth radio, the platform    *)
(* transport comes and goes.  Neither notifies the medium.                 *)
(***************************************************************************)
EnvironmentStep(op) ==
    [op |-> op, service_id |-> "", size |-> 0,
     fast_advertisement_service_uuid |-> "", failure |-> "none",
     ret |-> TRUE, returned |-> TRUE, calls |-> <<>>]

RadioSwitch ==
    /\ ~crashed
    /\ radio_' = ~radio_
    /\ last' = EnvironmentStep("RadioSwitch")
    /\ UNCHANGED <<medium_, advertising_service_ids_, scanned_service_ids_,
                   gatt_advertisements_, hosted_gatt_characteristics_, gatt_server_,
                   discovered_peripheral_tracker_, lost_alarm_, crashed, history,
                   threads, task_runner>>

TransportSwitch ==
    /\ ~crashed
    /\ medium_' = [medium_ EXCEPT !.valid = ~@]
    /\ last' = EnvironmentStep("TransportSwitch")
    /\ UNCHANGED <<radio_, advertising_service_ids_, scanned_service_ids_,
                   gatt_advertisements_, hosted_gatt_characteristics_, gatt_server_,
                   discovered_peripheral_tracker_, lost_alarm_, crashed, history,
                   threads, task_runner>>

\* The advertising half of the medium and the scanning half share no field:
\* each is explored with the environment, and both together in Spec.
NextAdvertising ==
    \/ CallStartAdvertising
    \/ CallStopAdvertising
    \/ RadioSwitch
    \/ TransportSwitch

NextScanning ==
    \/ CallStartScanning
    \/ CallStopScanning
    \/ RadioSwitch
    \/ TransportSwitch

Next ==
    \/ CallStartAdvertising
    \/ CallStopAdvertising
    \/ CallStartScanning
    \/ CallStopScanning
    \/ RadioSwitch
    \/ TransportSwitch

SpecAdvertising == Init /\ [][NextAdvertising]_vars

SpecScanning == Init /\ [][NextScanning]_vars

Spec == Init /\ [][Next]_vars

(***************************************************************************)
(* The fetcher, as the tracker invokes it: for a peripheral and a number   *)
(* of slots, with no result or with the result of its previous fetch.      *)
(***************************************************************************)
MaxNumSlots == 3

\* The first GATT answer that fails before the slots are read, if any.
FetchFailures == {"none", "gatt_client_null", "gatt_client_invalid", "discover_service"}

FetchEnv(failure, remote, generation) ==
    [gatt_client |-> CASE failure = "gatt_client_null" -> "null"
                       [] failure = "gatt_client_invalid" -> "invalid"
                       [] OTHER -> "valid",
     discover_ok |-> failure # "discover_service",
     remote |-> remote, generation |-> generation]

\* The GATT answers a fetch reaches: none when it is refused, no
\* characteristic when the connection or the discovery fails, and no
\* characteristic for a slot at or above num_slots.
ReachedFetchFailures(this, peripheral_valid) ==
    IF FetchRefuses(this, peripheral_valid) THEN {"none"} ELSE FetchFailures

ReachedRemotes(this, peripheral_valid, num_slots, failure) ==
    IF FetchRefuses(this, peripheral_valid) \/ failure # "none"
    THEN {[slot \in RemoteSlots |-> "absent"]}
    ELSE {remote \in [RemoteSlots -> CharacteristicStates] :
              \A slot \in RemoteSlots : slot >= num_slots => remote[slot] = "absent"}

ReachedGenerations(remote) ==
    IF \E slot \in RemoteSlots : remote[slot] = "readable"
    THEN Generations
    ELSE {CHOOSE g \in Generations : TRUE}

CallFetch ==
    \E peripheral_valid \in BOOLEAN, num_slots \in 0..MaxNumSlots, reuse \in BOOLEAN :
      \E failure \in ReachedFetchFailures(This, peripheral_valid) :
        \E remote \in ReachedRemotes(This, peripheral_valid, num_slots, failure) :
          \E generation \in ReachedGenerations(remote) :
            LET env == FetchEnv(failure, remote, generation)
                passed == IF reuse THEN advertisement_read_results_
                          ELSE NullAdvertisementReadResult
                fetch == ProcessFetchGattAdvertisementsRequest(
                             This, peripheral_valid, num_slots, passed, env)
            IN  /\ ~crashed /\ mutex_.owner = "none"
                /\ advertisement_read_results_' = fetch.advertisement_read_result
                /\ last' = [op |-> "ProcessFetchGattAdvertisementsRequest",
                            peripheral_valid |-> peripheral_valid,
                            num_slots |-> num_slots, passed |-> passed,
                            failure |-> failure, remote |-> remote,
                            ret |-> fetch.advertisement_read_result,
                            returned |-> TRUE, calls |-> fetch.calls]
                /\ UNCHANGED <<task_runner, radio_, medium_, advertising_service_ids_,
                               scanned_service_ids_, gatt_advertisements_,
                               hosted_gatt_characteristics_, gatt_server_,
                               discovered_peripheral_tracker_, lost_alarm_, crashed,
                               history, mutex_, serial_executor_, alarm_executor_>>

NextFetch ==
    \/ CallFetch
    \/ RadioSwitch
    \/ TransportSwitch

SpecFetch == Init /\ [][NextFetch]_vars

(***************************************************************************)
(* DiscoveredPeripheralTracker, for one peripheral.  found holds the       *)
(* service ids the peripheral is present for.  An advertisement is for a   *)
(* service id, as fast advertisement under the fast advertisement service  *)
(* uuid or as a header under the copresence service uuid, which needs a    *)
(* fetch of slot 0.  Events go to the callbacks of registered service ids  *)
(* only.                                                                   *)
(***************************************************************************)
\* The peripheral in range advertises for one service id.
AdvertisedServiceIds == {ServiceIdNames[1]}

AdvertisementDatas == [service_id : AdvertisedServiceIds, fast : BOOLEAN]

\* The registered service ids a fast advertisement is found for at once.
FastMatches(tracker, advertisement_data) ==
    {r.service_id : r \in {r \in tracker.registrations :
        /\ advertisement_data.fast
        /\ r.fast_advertisement_service_uuid # ""
        /\ r.service_id = advertisement_data.service_id}}

\* The registered service ids a header is a candidate for.
Candidates(tracker, advertisement_data) ==
    {r.service_id : r \in {r \in tracker.registrations :
        /\ ~advertisement_data.fast
        /\ r.fast_advertisement_service_uuid = ""
        /\ r.service_id = advertisement_data.service_id}}

\* The found events for service ids that are registered and for which the
\* peripheral is not present yet.
FoundEvents(tracker, service_ids) ==
    {[event |-> "found", service_id |-> s] :
        s \in (service_ids \cap TrackedServiceIds(tracker)) \ tracker.found}

ReportFound(tracker, service_ids) ==
    [tracker EXCEPT !.found = @ \cup (service_ids \cap TrackedServiceIds(tracker))]

\* ProcessLostGattAdvertisements: the peripheral, when it has timed out, is
\* lost for every service id it is present for.
LostEvents(tracker, timed_out) ==
    {[event |-> "lost", service_id |-> s] :
        s \in IF timed_out THEN tracker.found \cap TrackedServiceIds(tracker) ELSE {}}

\* A sweep that leaves the presence records in place.
ProcessLostGattAdvertisements_KeepsPresence(tracker, timed_out) == tracker

ProcessLostGattAdvertisements(tracker, timed_out) ==
    IF timed_out THEN [tracker EXCEPT !.found = {}] ELSE tracker

\* The result read from a peripheral goes with the peripheral.
LostAdvertisementReadResult(result, timed_out) ==
    IF timed_out THEN NullAdvertisementReadResult ELSE result

(***************************************************************************)
(* The threads.  Platform threads invoke advertisement_found_cb, which     *)
(* hands a task to the BLE thread; the task locks mutex_ and lets the      *)
(* tracker process the advertisement, which may call the fetcher; the      *)
(* fetcher locks mutex_ again and blocks in the GATT calls.  The alarm     *)
(* thread runs the lost alarm's callback, which locks mutex_, lets the     *)
(* tracker sweep and runs the alarm again.  The public operations run      *)
(* under mutex_ from start to end.                                         *)
(***************************************************************************)
MaxFound == 2

\* advertisement_data is captured by reference: when the task runs, the
\* platform's object may be gone, and the task reads the advertisement it
\* was given, any other one, or dies.
ObservedDatas(task) == AdvertisementDatas

DanglingOutcomes == {"read", "crash"}

AdvertisementFound ==
    \E advertisement_data \in AdvertisementDatas :
        /\ ~crashed
        /\ medium_.scanning.active
        /\ history.found_arrived < MaxFound
        /\ serial_executor_' = RunOnBleThread(serial_executor_,
               [seq |-> history.found_arrived + 1,
                advertisement_data |-> advertisement_data])
        /\ history' = [history EXCEPT !.found_arrived = @ + 1]
        /\ last' = EnvironmentStep("advertisement_found_cb")
        /\ UNCHANGED <<task_runner, radio_, medium_, advertising_service_ids_,
                       scanned_service_ids_, gatt_advertisements_,
                       hosted_gatt_characteristics_, gatt_server_,
                       discovered_peripheral_tracker_, lost_alarm_, crashed,
                       advertisement_read_results_, mutex_, alarm_executor_>>

\* The task's advertisement matches a registered service id.
Wanted(tracker, task) ==
    FastMatches(tracker, task.advertisement_data)
        \cup Candidates(tracker, task.advertisement_data) # {}

\* The BLE thread takes the next task and comes to its MutexLock; wanted
\* tells whether the advertisement matched a registration at that time.
BleThreadStart ==
    /\ ~crashed
    /\ serial_executor_.running = IdleThread
    /\ serial_executor_.queue # <<>>
    /\ serial_executor_' =
           [queue |-> Tail(serial_executor_.queue),
            running |-> [pc |-> "lock", task |-> Head(serial_executor_.queue),
                         wanted |-> Wanted(discovered_peripheral_tracker_,
                                           Head(serial_executor_.queue))]]
    /\ history' = [history EXCEPT !.found_started = @ + 1]
    /\ last' = EnvironmentStep("BleThreadStart")
    /\ UNCHANGED <<task_runner, radio_, medium_, advertising_service_ids_,
                   scanned_service_ids_, gatt_advertisements_,
                   hosted_gatt_characteristics_, gatt_server_,
                   discovered_peripheral_tracker_, lost_alarm_, crashed,
                   advertisement_read_results_, mutex_, alarm_executor_>>

\* The task locks mutex_ and the tracker processes the advertisement, up to
\* the end or up to the fetcher's first GATT call.
BleThreadProcess ==
    \E outcome \in DanglingOutcomes,
       observed \in ObservedDatas(serial_executor_.running.task) :
        LET tracker == discovered_peripheral_tracker_
            fast == FastMatches(tracker, observed)
            candidates == Candidates(tracker, observed)
            cached == HasAdvertisement(advertisement_read_results_, 0)
            reported == IF cached THEN fast \cup candidates ELSE fast
            fetches == candidates # {} /\ ~cached /\ ~FetchRefuses(This, TRUE)
        IN  /\ ~crashed
            /\ serial_executor_.running.pc = "lock"
            /\ mutex_.owner = "none"
            /\ IF outcome = "crash"
               THEN /\ crashed' = TRUE
                    /\ last' = EnvironmentStep("BleThreadCrash")
                    /\ UNCHANGED <<discovered_peripheral_tracker_, mutex_,
                                   serial_executor_,
                                   advertisement_read_results_>>
               ELSE /\ crashed' = FALSE
                    /\ discovered_peripheral_tracker_' = ReportFound(tracker, reported)
                    /\ mutex_' = IF fetches
                                 THEN [owner |-> "serial_executor_", count |-> 2]
                                 ELSE mutex_
                    /\ serial_executor_' =
                           [serial_executor_ EXCEPT !.running =
                               IF fetches
                               THEN [pc |-> "gatt", task |-> @.task,
                                     wanted |-> @.wanted,
                                     observed |-> observed]
                               ELSE IdleThread]
                    /\ advertisement_read_results_' =
                           IF candidates # {} /\ ~cached /\ ~fetches
                           THEN ProcessFetchGattAdvertisementsRequest(
                                    This, TRUE, 1, advertisement_read_results_,
                                    FetchEnv("none", [slot \in RemoteSlots |-> "absent"], 1)
                                ).advertisement_read_result
                           ELSE advertisement_read_results_
                    /\ last' = [op |-> "ProcessFoundBleAdvertisement",
                                seq |-> serial_executor_.running.task.seq,
                                wanted |-> serial_executor_.running.wanted,
                                advertisement_data |->
                                    serial_executor_.running.task.advertisement_data,
                                observed |-> observed,
                                dispatched |-> FoundEvents(tracker, reported)]
            /\ UNCHANGED <<task_runner, radio_, medium_, advertising_service_ids_,
                           scanned_service_ids_, gatt_advertisements_,
                           hosted_gatt_characteristics_, gatt_server_,
                           lost_alarm_, history, alarm_executor_>>

\* The GATT calls of the fetch return; the tracker reports what was read,
\* and the task ends and unlocks mutex_.
BleThreadFetchReturn ==
    \E failure \in FetchFailures, state \in CharacteristicStates :
        LET env == FetchEnv(failure,
                       [slot \in RemoteSlots |-> IF slot = 0 THEN state ELSE "absent"],
                       1)
            fetch == ProcessFetchGattAdvertisementsRequest(
                         This, TRUE, 1, advertisement_read_results_, env)
            tracker == discovered_peripheral_tracker_
            reported ==
                IF HasAdvertisement(fetch.advertisement_read_result, 0)
                THEN Candidates(tracker, serial_executor_.running.observed)
                ELSE {}
        IN  /\ ~crashed
            /\ serial_executor_.running.pc = "gatt"
            /\ failure # "none" => state = "absent"
            /\ advertisement_read_results_' = fetch.advertisement_read_result
            /\ discovered_peripheral_tracker_' = ReportFound(tracker, reported)
            /\ mutex_' = [owner |-> "none", count |-> 0]
            /\ serial_executor_' = [serial_executor_ EXCEPT !.running = IdleThread]
            /\ last' = [op |-> "ProcessFoundBleAdvertisement",
                        seq |-> serial_executor_.running.task.seq,
                        wanted |-> serial_executor_.running.wanted,
                        advertisement_data |->
                            serial_executor_.running.task.advertisement_data,
                        observed |-> serial_executor_.running.observed,
                        dispatched |-> FoundEvents(tracker, reported)]
            /\ UNCHANGED <<task_runner, radio_, medium_, advertising_service_ids_,
                           scanned_service_ids_, gatt_advertisements_,
                           hosted_gatt_characteristics_, gatt_server_,
                           lost_alarm_, crashed, history, alarm_executor_>>

\* The lost alarm goes off: its callback starts on the alarm thread and
\* comes to its MutexLock.
LostAlarmFire ==
    /\ ~crashed
    /\ lost_alarm_ = "valid"
    /\ alarm_executor_ = IdleThread
    /\ alarm_executor_' = [pc |-> "lock"]
    /\ last' = EnvironmentStep("LostAlarmFire")
    /\ UNCHANGED <<task_runner, radio_, medium_, advertising_service_ids_,
                   scanned_service_ids_, gatt_advertisements_,
                   hosted_gatt_characteristics_, gatt_server_,
                   discovered_peripheral_tracker_, lost_alarm_, crashed, history,
                   advertisement_read_results_, mutex_, serial_executor_>>

\* The callback locks mutex_, the tracker sweeps, and lost_alarm_->Run()
\* arms an alarm that has not been cancelled again.
LostAlarmRun ==
    \E timed_out \in BOOLEAN :
        /\ ~crashed
        /\ alarm_executor_ = [pc |-> "lock"]
        /\ mutex_.owner = "none"
        /\ discovered_peripheral_tracker_' =
               ProcessLostGattAdvertisements(discovered_peripheral_tracker_, timed_out)
        /\ alarm_executor_' = IdleThread
        /\ last' = [op |-> "ProcessLostGattAdvertisements",
                    dispatched |-> LostEvents(discovered_peripheral_tracker_, timed_out)]
        /\ advertisement_read_results_' =
               LostAdvertisementReadResult(advertisement_read_results_, timed_out)
        /\ UNCHANGED <<task_runner, radio_, medium_, advertising_service_ids_,
                       scanned_service_ids_, gatt_advertisements_,
                       hosted_gatt_characteristics_, gatt_server_,
                       lost_alarm_, crashed, history, mutex_, serial_executor_>>

NextThreads ==
    \/ CallStartScanning
    \/ CallStopScanning
    \/ AdvertisementFound
    \/ BleThreadStart
    \/ BleThreadProcess
    \/ BleThreadFetchReturn
    \/ LostAlarmFire
    \/ LostAlarmRun

SpecThreads == Init /\ [][NextThreads]_vars

(***************************************************************************)
(* The FakeTaskRunner's callers, its clock and its thread.  history.posted *)
(* holds the tasks posted, history.ran the tasks a thread has started, in  *)
(* the order of the starts.                                                *)
(***************************************************************************)
Medium ==
    <<radio_, medium_, advertising_service_ids_, scanned_service_ids_,
      gatt_advertisements_, hosted_gatt_characteristics_, gatt_server_,
      discovered_peripheral_tracker_, lost_alarm_, crashed, threads>>

TaskRunnerStep(op, runner) ==
    /\ task_runner' = runner
    /\ last' = [op |-> op]
    /\ UNCHANGED Medium

CallPostTask ==
    LET task == NewTask(task_runner, 0, FALSE)
    IN  /\ task_runner.current_id_ < MaxTasks
        /\ TaskRunnerStep("PostTask", PostTask(task_runner, task))
        /\ history' = [history EXCEPT !.posted = @ \cup {task}]

CallPostDelayedTask ==
    \E delay \in Delays, reposts \in BOOLEAN :
        LET task == NewTask(task_runner, delay, reposts)
        IN  /\ task_runner.current_id_ < MaxTasks
            /\ reposts => delay = ChildDelay
            /\ TaskRunnerStep("PostDelayedTask", PostDelayedTask(task_runner, task))
            /\ history' = [history EXCEPT !.posted = @ \cup {task}]

CallSetMode ==
    \E mode \in Modes \ {task_runner.mode_} :
        /\ TaskRunnerStep("SetMode", [task_runner EXCEPT !.mode_ = mode])
        /\ UNCHANGED history

CallRunNextPendingTask ==
    /\ TaskRunnerStep("RunNextPendingTask", RunNextPendingTask(task_runner))
    /\ UNCHANGED history

CallRunAllPendingTasks ==
    /\ TaskRunnerStep("RunAllPendingTasks", RunAllPendingTasks(task_runner))
    /\ UNCHANGED history

ClockFastForward ==
    \E duration \in FastForwards :
      \E order \in Orders(DueTimers(task_runner, task_runner.clock_ + duration)) :
        /\ task_runner.clock_ + duration <= MaxTime
        /\ TaskRunnerStep("FastForward", FastForward(task_runner, duration, order))
        /\ UNCHANGED history

\* FakeTaskRunner::RunNextQueueTask: a thread takes the oldest queued task.
RunNextQueueTask ==
    /\ task_runner.queued_tasks_ # <<>>
    /\ ThreadAvailable(task_runner)
    /\ TaskRunnerStep("RunNextQueueTask",
                      [task_runner EXCEPT
                          !.queued_tasks_ = Tail(@),
                          !.threads_ = @ \cup {Head(task_runner.queued_tasks_)}])
    /\ history' = [history EXCEPT
           !.ran = Append(@, Head(task_runner.queued_tasks_))]

\* The running task does its work, which may be to post its child, and
\* returns.
TaskReturns ==
    \E task \in task_runner.threads_ :
        LET done == [task_runner EXCEPT !.threads_ = @ \ {task}]
            child == ChildTask(task)
        IN  /\ TaskRunnerStep("TaskReturns",
                              IF task.reposts THEN PostDelayedTask(done, child)
                              ELSE done)
            /\ history' = [history EXCEPT
                   !.posted = IF task.reposts THEN @ \cup {child} ELSE @]

\* FakeTaskRunner::Sync, WaitForRunningTasksWithTimeout: returns once no
\* thread is running and no task is queued for one.
Sync ==
    /\ task_runner.queued_tasks_ = <<>>
    /\ task_runner.threads_ = {}
    /\ TaskRunnerStep("Sync", task_runner)
    /\ UNCHANGED history

NextTaskRunner ==
    \/ CallPostTask
    \/ CallPostDelayedTask
    \/ CallSetMode
    \/ CallRunNextPendingTask
    \/ CallRunAllPendingTasks
    \/ ClockFastForward
    \/ RunNextQueueTask
    \/ TaskReturns
    \/ Sync

SpecTaskRunner == Init /\ [][NextTaskRunner]_vars

(***************************************************************************)
(* Discovery, end to end.  An advertising device runs StartAdvertising and *)
(* StopAdvertising, a scanning device StartScanning and StopScanning; the  *)
(* fields of the advertising half of the state are the advertiser's, those *)
(* of the scanning half the scanner's.  In a scan cycle the platform hands *)
(* what the advertiser broadcasts to the scanner's advertisement_found_cb  *)
(* when the scan asked for a service uuid the advertisement carries; the   *)
(* callback's task lets the tracker process it, with the fetcher reading   *)
(* the advertiser's GATT server.                                           *)
(***************************************************************************)
\* The payload the advertiser publishes.
DiscoveryPayload == [kind |-> "raw", size |-> kMaxAdvertisementLength]

\* The service uuids an advertisement carries.
CarriedServiceUuids(advertisement) ==
    IF advertisement.kind # "advertising" THEN {}
    ELSE advertisement.advertising_data.service_uuids
            \cup advertisement.scan_response_data.service_uuids
            \cup {d.uuid : d \in advertisement.scan_response_data.service_data}

\* The service uuids a platform scan asked for.
ScannedServiceUuids(scanning) ==
    {scanning.service_uuids[i] : i \in 1..Len(scanning.service_uuids)}

\* A platform that reports every advertisement to every scan.
PlatformReports_Any(scanning, advertisement) ==
    scanning.active /\ advertisement.kind = "advertising"

\* The platform reports an advertisement to a scan that asked for one of
\* the service uuids it carries.
PlatformReports(scanning, advertisement) ==
    /\ scanning.active
    /\ CarriedServiceUuids(advertisement) \cap ScannedServiceUuids(scanning) # {}

ServiceData(advertisement) ==
    IF advertisement.kind = "advertising"
    THEN advertisement.scan_response_data.service_data
    ELSE {}

\* Step 1 of the tracker: service data under a registered fast uuid is the
\* advertisement itself.
FoundFast(tracker, advertisement) ==
    {[service_id |-> x[1].service_id, payload |-> x[2].data] :
        x \in {y \in tracker.registrations \X ServiceData(advertisement) :
                  /\ y[1].fast_advertisement_service_uuid # ""
                  /\ y[2].uuid = y[1].fast_advertisement_service_uuid
                  /\ y[2].data.kind = "ble_advertisement"}}

\* Step 2: the headers under the copresence uuid, and the registered
\* regular service ids a header's bloom filter might contain.
Headers(advertisement) ==
    {d.data : d \in {x \in ServiceData(advertisement) :
                        /\ x.uuid = kCopresenceServiceUuid
                        /\ x.data.kind = "header"}}

HeaderCandidates(tracker, header) ==
    {r.service_id : r \in {x \in tracker.registrations :
        /\ x.fast_advertisement_service_uuid = ""
        /\ MightContain(header.service_id_bloom_filter, x.service_id)}}

\* Step 4: the bytes read from a slot are found for the registered regular
\* service id whose hash they carry.
FoundInGatt(tracker, result) ==
    {[service_id |-> x[1].service_id, payload |-> x[2].bytes.generation] :
        x \in {y \in tracker.registrations \X result.advertisements :
                  /\ y[1].fast_advertisement_service_uuid = ""
                  /\ y[2].bytes.generation.kind = "ble_advertisement"
                  /\ y[2].bytes.generation.service_id_hash
                        = GenerateHash(y[1].service_id)}}

\* The advertiser's GATT server, as the scanner's fetch finds it: the
\* connect fails when no server runs, and a slot's bytes are the value of
\* its characteristic.
AdvertiserGattEnv(this) ==
    FetchEnv(IF IsAdvertisementGattServerRunningLocked(this)
             THEN "none" ELSE "gatt_client_null",
             [slot \in RemoteSlots |->
                 IF CharacteristicValues(this.gatt_server, slot) # {}
                 THEN "readable" ELSE "absent"],
             IF CharacteristicValues(this.gatt_server, 0) # {}
             THEN CHOOSE value \in CharacteristicValues(this.gatt_server, 0) : TRUE
             ELSE EmptyByteArray)

\* DiscoveredPeripheralTracker::ProcessFoundBleAdvertisement: the service
\* ids the advertisement is found for, with the payloads.
ProcessFoundBleAdvertisement(this, advertisement) ==
    LET headers == Headers(advertisement)
        candidates == UNION {HeaderCandidates(this.tracker, h) : h \in headers}
        num_slots == IF headers = {} THEN 0
                     ELSE (CHOOSE h \in headers : TRUE).num_slots
        fetch == ProcessFetchGattAdvertisementsRequest(
                     this, TRUE, num_slots, NullAdvertisementReadResult,
                     AdvertiserGattEnv(this))
    IN  FoundFast(this.tracker, advertisement)
            \cup IF candidates # {}
                 THEN FoundInGatt(this.tracker, fetch.advertisement_read_result)
                 ELSE {}

\* What the task of advertisement_found_cb reads through the reference it
\* captured, unless it dies: the advertisement, or something else.
DiscoveryObserved(advertisement) == {advertisement, NoAdvertisement}

AdvertiserStartAdvertising ==
    \E service_id \in ServiceIds, fast_advertisement_service_uuid \in FastUuids :
      \E dummy_service_id \in ReachedDummyServiceIds(
                                  fast_advertisement_service_uuid, "none"):
        LET env == StartAdvertisingEnv("none", CHOOSE t \in DeviceTokens : TRUE,
                       dummy_service_id,
                       CHOOSE order \in Orders(AdvertisementSlots) : TRUE)
            r == StartAdvertising(This, service_id, DiscoveryPayload,
                                  fast_advertisement_service_uuid, env)
        IN  /\ ~crashed /\ mutex_.owner = "none"
            /\ Commit(r, "StartAdvertising", service_id, Size(DiscoveryPayload),
                      fast_advertisement_service_uuid, "none")
            /\ history' = [history EXCEPT
                   !.started = IF r.ret THEN @ \cup {service_id} ELSE @,
                   !.recent = IF r.ret THEN @ \cup {service_id}
                              ELSE @ \ {service_id}]

AdvertiserStopAdvertising ==
    \E service_id \in ServiceIds, null_dereference \in {"crash", "continue"} :
        LET env == [update_ok |-> TRUE, stop_ok |-> TRUE,
                    null_dereference |-> null_dereference]
            r == StopAdvertising(This, service_id, env)
        IN  /\ ~crashed /\ mutex_.owner = "none"
            /\ Commit(r, "StopAdvertising", service_id, 0, "", "none")
            /\ history' = [history EXCEPT !.started = @ \ {service_id},
                                          !.recent = @ \ {service_id}]

\* The service ids the scanner scans for.
ScannerServiceIds == {ServiceIdNames[1], ServiceIdNames[2]}

\* The scanner's calls, with a platform that starts and stops the scan.
ScannerStartScanning ==
    \E service_id \in ScannerServiceIds, fast_advertisement_service_uuid \in FastUuids :
        LET r == StartScanning(This, service_id, fast_advertisement_service_uuid,
                               [scan_ok |-> TRUE])
        IN  /\ ~crashed /\ mutex_.owner = "none"
            /\ Commit(r, "StartScanning", service_id, 0,
                      fast_advertisement_service_uuid, "none")
            /\ history' = [history EXCEPT
                   !.scan_starts = ScanStarts(r),
                   !.scanning = IF r.ret THEN @ \cup {service_id} ELSE @]

ScannerStopScanning ==
    \E service_id \in ScannerServiceIds, null_dereference \in {"crash", "continue"} :
        LET r == StopScanning(This, service_id,
                              [stop_ok |-> TRUE,
                               null_dereference |-> null_dereference])
        IN  /\ ~crashed /\ mutex_.owner = "none"
            /\ Commit(r, "StopScanning", service_id, 0, "", "none")
            /\ history' = [history EXCEPT
                   !.scan_starts = ScanStarts(r),
                   !.scanning = IF r.this.crashed THEN @ ELSE @ \ {service_id}]

\* One scan cycle: the platform's report, the callback's task and the
\* tracker's processing of what the task reads.
ScanCycle ==
    \E outcome \in DanglingOutcomes,
       observed \in DiscoveryObserved(medium_.advertising) :
        LET reported == PlatformReports(medium_.scanning, medium_.advertising)
            tracker == discovered_peripheral_tracker_
            found == IF reported /\ outcome = "read"
                     THEN ProcessFoundBleAdvertisement(This, observed)
                     ELSE {}
        IN  /\ ~crashed /\ mutex_.owner = "none"
            /\ medium_.scanning.active
            /\ ~reported => (outcome = "read" /\ observed = medium_.advertising)
            /\ crashed' = (reported /\ outcome = "crash")
            /\ discovered_peripheral_tracker_' =
                   ReportFound(tracker, {f.service_id : f \in found})
            /\ last' = [op |-> "ScanCycle", reported |-> reported,
                        intact |-> observed = medium_.advertising,
                        dispatched |->
                            {f \in found : f.service_id \notin tracker.found}]
            /\ UNCHANGED <<radio_, medium_, advertising_service_ids_,
                           scanned_service_ids_, gatt_advertisements_,
                           hosted_gatt_characteristics_, gatt_server_,
                           lost_alarm_, history, threads, task_runner>>

NextDiscovery ==
    \/ AdvertiserStartAdvertising
    \/ AdvertiserStopAdvertising
    \/ ScannerStartScanning
    \/ ScannerStopScanning
    \/ ScanCycle

SpecDiscovery == Init /\ [][NextDiscovery]_vars

(***************************************************************************)
(* BleV2::~BleV2.  The destructor stops the scanning service ids one by    *)
(* one, then the advertising service ids one by one, then shuts the        *)
(* executors down.  begin() of an unordered set is any of its elements.    *)
(* Once the destructor has begun no other call is made on the object; the  *)
(* destructor is under way while last.op is "~BleV2" and has returned once *)
(* the executors are shut down.                                            *)
(***************************************************************************)
ShutdownCalls == <<"serial_executor_.Shutdown", "alarm_executor_.Shutdown">>

InDestructor == last.op = "~BleV2"

Destroyed == InDestructor /\ last.calls = ShutdownCalls

\* while (!scanned_service_ids_.empty())
ScanningLoopRuns == scanned_service_ids_ # {}

\* while (!advertising_service_ids_.empty())
AdvertisingLoopRuns == ~ScanningLoopRuns /\ advertising_service_ids_ # {}

\* StopScanning(scanned_service_ids_.begin()->data())
DestructorStopScanning ==
    \E service_id \in scanned_service_ids_, env \in StopScanningEnvs :
        LET r == StopScanning(This, service_id, env)
        IN  /\ ~crashed /\ mutex_.owner = "none"
            /\ ~Destroyed
            /\ ScanningLoopRuns
            /\ Commit(r, "~BleV2", service_id, 0, "", "none")
            /\ history' = [history EXCEPT
                   !.scan_starts = ScanStarts(r),
                   !.scanning = IF r.this.crashed THEN @ ELSE @ \ {service_id}]

\* StopAdvertising(advertising_service_ids_.begin()->data())
DestructorStopAdvertising ==
    \E service_id \in advertising_service_ids_, env \in StopAdvertisingEnvs :
        LET r == StopAdvertising(This, service_id, env)
        IN  /\ ~crashed /\ mutex_.owner = "none"
            /\ ~Destroyed
            /\ AdvertisingLoopRuns
            /\ Commit(r, "~BleV2", service_id, 0, "", "none")
            /\ history' = [history EXCEPT !.started = @ \ {service_id},
                                          !.recent = @ \ {service_id}]

\* serial_executor_.Shutdown(); alarm_executor_.Shutdown();
DestructorShutdown ==
    /\ ~crashed /\ mutex_.owner = "none"
    /\ ~Destroyed
    /\ ~ScanningLoopRuns /\ ~AdvertisingLoopRuns
    /\ last' = [EnvironmentStep("~BleV2") EXCEPT !.calls = ShutdownCalls]
    /\ UNCHANGED <<radio_, medium_, advertising_service_ids_,
                   scanned_service_ids_, gatt_advertisements_,
                   hosted_gatt_characteristics_, gatt_server_,
                   discovered_peripheral_tracker_, lost_alarm_, crashed, history,
                   threads, task_runner>>

\* The platform answers of the StartAdvertising calls made on the object
\* before it is destroyed.
LiveStartAdvertisingFailures == {"none", "medium_start_advertising"}

\* The calls made on the object while it lives.
LiveStartAdvertising ==
    \E service_id \in ServiceIds, fast_advertisement_service_uuid \in FastUuids,
       failure \in LiveStartAdvertisingFailures :
        LET env == StartAdvertisingEnv(failure, CHOOSE t \in DeviceTokens : TRUE,
                       CHOOSE d \in DummyServiceIds : TRUE,
                       CHOOSE order \in Orders(AdvertisementSlots) : TRUE)
            r == StartAdvertising(This, service_id, DiscoveryPayload,
                                  fast_advertisement_service_uuid, env)
        IN  /\ ~crashed /\ mutex_.owner = "none"
            /\ ~InDestructor
            /\ Commit(r, "StartAdvertising", service_id, Size(DiscoveryPayload),
                      fast_advertisement_service_uuid, failure)
            /\ history' = [history EXCEPT
                   !.started = IF r.ret THEN @ \cup {service_id} ELSE @,
                   !.recent = IF r.ret THEN @ \cup {service_id}
                              ELSE @ \ {service_id}]

LiveStopAdvertising == ~InDestructor /\ AdvertiserStopAdvertising

LiveStartScanning == ~InDestructor /\ ScannerStartScanning

LiveStopScanning == ~InDestructor /\ ScannerStopScanning

DestructorStep ==
    \/ DestructorStopScanning
    \/ DestructorStopAdvertising
    \/ DestructorShutdown

NextDestructor ==
    \/ LiveStartAdvertising
    \/ LiveStopAdvertising
    \/ LiveStartScanning
    \/ LiveStopScanning
    \/ DestructorStopScanning
    \/ DestructorStopAdvertising
    \/ DestructorShutdown

\* A destructor that has been called runs on: its thread is not held up
\* for ever.
SpecDestructor == Init /\ [][NextDestructor]_vars /\ WF_vars(DestructorStep)

(***************************************************************************)
(* Properties of StartAdvertising and StopAdvertising, checked under       *)
(* SpecAdvertising.  In a step, last' holds the call and its result, the   *)
(* unprimed variables the state the call found.                            *)
(***************************************************************************)
AdvertisingState ==
    <<advertising_service_ids_, gatt_advertisements_,
      hosted_gatt_characteristics_, gatt_server_, medium_>>

\* The call of this step is refused by StartAdvertising's validation.
StartAdvertisingRefused ==
    \/ last'.size = 0
    \/ last'.size > kMaxAdvertisementLength
    \/ last'.service_id \in advertising_service_ids_
    \/ ~radio_
    \/ ~medium_.valid

\* C1: a StartAdvertising with an empty or over-long payload, for a service
\* id already advertising, with the radio disabled or the transport
\* unavailable returns false, calls nothing on the platform and leaves the
\* advertising set, the slot store, the hosted characteristics, the GATT
\* server and the platform advertising as they were; a payload of exactly
\* kMaxAdvertisementLength bytes that meets no other refusal and no platform
\* failure is accepted.
C1_StartAdvertisingValidation ==
    [][last'.op = "StartAdvertising" =>
         /\ StartAdvertisingRefused =>
                /\ last'.ret = FALSE
                /\ last'.calls = <<>>
                /\ UNCHANGED AdvertisingState
         /\ (/\ ~StartAdvertisingRefused
             /\ last'.size = kMaxAdvertisementLength
             /\ last'.failure = "none") => last'.ret = TRUE]_vars

\* An over-long payload was refused while a service id was advertising over
\* a running GATT server.
C1_Witness ==
    /\ last.op = "StartAdvertising"
    /\ last.ret = FALSE
    /\ last.size > kMaxAdvertisementLength
    /\ advertising_service_ids_ # {}
    /\ gatt_advertisements_ # {}
    /\ gatt_server_.present
    /\ medium_.advertising.kind = "advertising"

\* The regular-path call of this step started a GATT server and then failed
\* at the header or at the platform's StartAdvertising.
FailedAfterGattServerStarted ==
    /\ last'.op = "StartAdvertising"
    /\ last'.fast_advertisement_service_uuid = ""
    /\ last'.ret = FALSE
    /\ last'.failure \in {"header_invalid", "medium_start_advertising"}
    /\ Count(last'.calls, "StartGattServer") = 1

\* C2: a regular-path StartAdvertising that finds no slot entry and no
\* hosted characteristic, starts the GATT server and then fails (header
\* creation or the platform's StartAdvertising) leaves, on return, no GATT
\* server running, no slot entry and no hosted characteristic.
C2_NoPartialStateAfterFailedStart ==
    [][(/\ FailedAfterGattServerStarted
        /\ gatt_advertisements_ = {}
        /\ hosted_gatt_characteristics_ = {})
       => /\ ~gatt_server_'.present
          /\ gatt_advertisements_' = {}
          /\ hosted_gatt_characteristics_' = {}]_vars

\* C3: after a StopAdvertising that returned true and left no service id
\* advertising, the GATT server is not running.
C3_ServerStoppedWithLastAdvertiser ==
    (/\ last.op = "StopAdvertising"
     /\ last.returned
     /\ last.ret = TRUE
     /\ advertising_service_ids_ = {})
    => ~(gatt_server_.present /\ gatt_server_.valid)

\* The medium advertisement StartAdvertising builds on the regular path.
RegularAdvertisementOf(service_id, size) ==
    {BleAdvertisement(GenerateHash(service_id), [kind |-> "raw", size |-> size],
                      device_token, TRUE) : device_token \in DeviceTokens}

\* C4: after a regular-path StartAdvertising has returned true, slot 0 of
\* the slot store holds the call's service id with the medium advertisement
\* of the call's bytes, and the slot-0 characteristic of the running GATT
\* server holds the same bytes.
C4_SlotZeroHoldsStartedAdvertisement ==
    (/\ last.op = "StartAdvertising"
     /\ last.fast_advertisement_service_uuid = ""
     /\ last.ret = TRUE)
    => /\ gatt_server_.present /\ gatt_server_.valid
       /\ \E e \in gatt_advertisements_ :
            /\ e.slot = 0
            /\ e.service_id = last.service_id
            /\ e.bytes \in RegularAdvertisementOf(last.service_id, last.size)
            /\ CharacteristicValues(gatt_server_, 0) = {e.bytes}

\* The headers the platform is broadcasting under the copresence uuid.
BroadcastHeaders ==
    IF medium_.advertising.kind = "advertising"
    THEN {d.data : d \in {x \in medium_.advertising.scan_response_data.service_data :
                            x.uuid = kCopresenceServiceUuid}}
    ELSE {}

\* C5: after a regular-path StartAdvertising has returned true, the header
\* being broadcast has a bloom filter that might contain the call's service
\* id and the service id of every occupied slot.
C5_HeaderBloomFilterContainsServiceId ==
    (/\ last.op = "StartAdvertising"
     /\ last.fast_advertisement_service_uuid = ""
     /\ last.ret = TRUE)
    => /\ BroadcastHeaders # {}
       /\ \A header \in BroadcastHeaders :
            /\ MightContain(header.service_id_bloom_filter, last.service_id)
            /\ \A e \in gatt_advertisements_ :
                 MightContain(header.service_id_bloom_filter, e.service_id)

\* BleV2::IsAdvertising
IsAdvertising(service_id) == service_id \in advertising_service_ids_

\* C6, as claimed: IsAdvertising(s) is true exactly when the most recent
\* StartAdvertising(s) returned true and no StopAdvertising(s) has been
\* called since.
C6_AdvertisingIffMostRecentStartSucceeded ==
    ~crashed => \A s \in ServiceIds : IsAdvertising(s) <=> s \in history.recent

\* C6, amended: IsAdvertising(s) is true exactly when some StartAdvertising(s)
\* has returned true and no StopAdvertising(s) has been called since; after
\* a StopAdvertising(s) has returned, whatever it returned, IsAdvertising(s)
\* is false; a call for another service id leaves IsAdvertising(s) as it was.
C6_AdvertisingIffStartedAndNotStopped ==
    /\ [](~crashed => \A s \in ServiceIds :
                         IsAdvertising(s) <=> s \in history.started)
    /\ [][(last'.op = "StopAdvertising" /\ last'.returned)
             => last'.service_id \notin advertising_service_ids_']_vars
    /\ [][\A s \in ServiceIds :
             (last'.returned /\ last'.service_id # s)
                => (s \in advertising_service_ids_' <=> IsAdvertising(s))]_vars

\* A StartAdvertising for a service id that is advertising was refused, and
\* the service id is still advertising.
C6_Witness ==
    /\ last.op = "StartAdvertising"
    /\ last.ret = FALSE
    /\ IsAdvertising(last.service_id)
    /\ last.service_id \in history.started
    /\ last.service_id \notin history.recent

\* C7: a StopAdvertising for a service id that is not advertising returns
\* false, calls nothing on the platform and leaves the advertising set, the
\* slot store, the hosted characteristics, the GATT server and the platform
\* advertising as they were.
C7_StopAdvertisingNotAdvertising ==
    [][(/\ last'.op = "StopAdvertising"
        /\ last'.service_id \notin advertising_service_ids_)
       => /\ last'.returned
          /\ last'.ret = FALSE
          /\ last'.calls = <<>>
          /\ UNCHANGED AdvertisingState]_vars

\* A StopAdvertising was refused for a service id that is not advertising
\* while another one is advertising over the GATT server.
C7_Witness ==
    /\ last.op = "StopAdvertising"
    /\ last.returned
    /\ last.ret = FALSE
    /\ advertising_service_ids_ # {}
    /\ last.service_id \notin advertising_service_ids_
    /\ gatt_advertisements_ # {}
    /\ hosted_gatt_characteristics_ # {}
    /\ gatt_server_.present

(***************************************************************************)
(* Properties of StartScanning and StopScanning, checked under             *)
(* SpecScanning.                                                           *)
(***************************************************************************)
ScanningState ==
    <<scanned_service_ids_, discovered_peripheral_tracker_, medium_, lost_alarm_>>

\* The call of this step is refused by StartScanning's validation.
StartScanningRefused ==
    \/ last'.service_id = ""
    \/ last'.service_id \in scanned_service_ids_
    \/ ~radio_
    \/ ~medium_.valid

\* C8: a StartScanning with an empty service id, for a service id already
\* scanning, with the radio disabled or the transport unavailable returns
\* false, calls nothing on the platform and leaves the scanning set, the
\* tracker's registrations, the platform scan and the lost alarm as they
\* were.
C8_StartScanningValidation ==
    [][(last'.op = "StartScanning" /\ StartScanningRefused)
       => /\ last'.ret = FALSE
          /\ last'.calls = <<>>
          /\ UNCHANGED ScanningState]_vars

\* A StartScanning was refused for a service id that is scanning, with the
\* platform scan active and the lost alarm armed.
C8_Witness ==
    /\ last.op = "StartScanning"
    /\ last.ret = FALSE
    /\ last.service_id \in scanned_service_ids_
    /\ last.service_id \in TrackedServiceIds(discovered_peripheral_tracker_)
    /\ medium_.scanning.active
    /\ lost_alarm_ = "valid"

\* C9: the platform's StartScanning is called, and the lost alarm armed, only
\* by a StartScanning that finds no service id scanning; a StartScanning
\* that passes validation while another service id is scanning registers
\* with the tracker, joins the scanning set and returns true without any
\* platform call; so at most one platform StartScanning is called while the
\* scanning set stays non-empty.
C9_OnePlatformScanPerPeriod ==
    /\ [][(\/ Count(last'.calls, "medium_.StartScanning") > 0
           \/ Count(last'.calls, "lost_alarm_ = CancelableAlarm") > 0)
          => /\ last'.op = "StartScanning"
             /\ scanned_service_ids_ = {}
             /\ Count(last'.calls, "medium_.StartScanning") = 1]_vars
    /\ [][(/\ last'.op = "StartScanning"
           /\ ~StartScanningRefused
           /\ scanned_service_ids_ # {})
          => /\ last'.ret = TRUE
             /\ last'.calls = <<>>
             /\ scanned_service_ids_' = scanned_service_ids_ \cup {last'.service_id}
             /\ TrackedServiceIds(discovered_peripheral_tracker_')
                    = TrackedServiceIds(discovered_peripheral_tracker_)
                          \cup {last'.service_id}
             /\ UNCHANGED <<medium_, lost_alarm_>>]_vars
    /\ [](history.scan_starts <= 1)

\* A second service id joined the scan the first one had started.
C9_Witness ==
    /\ last.op = "StartScanning"
    /\ last.ret = TRUE
    /\ last.calls = <<>>
    /\ Cardinality(scanned_service_ids_) = 2
    /\ history.scan_starts = 1
    /\ medium_.scanning.active
    /\ lost_alarm_ = "valid"

\* C10: a StopScanning for a scanning service id removes it from the
\* tracker and from the scanning set; it cancels the lost alarm and calls
\* the platform's StopScanning exactly when no service id remains scanning;
\* when others remain it returns true and leaves the platform scan and the
\* lost alarm as they were.
C10_StopScanning ==
    [][(/\ last'.op = "StopScanning"
        /\ last'.service_id \in scanned_service_ids_)
       => /\ last'.returned
          /\ scanned_service_ids_' = scanned_service_ids_ \ {last'.service_id}
          /\ TrackedServiceIds(discovered_peripheral_tracker_')
                 = TrackedServiceIds(discovered_peripheral_tracker_)
                       \ {last'.service_id}
          /\ Count(last'.calls, "medium_.StopScanning") = 1
                 <=> scanned_service_ids_' = {}
          /\ Count(last'.calls, "lost_alarm_->Cancel") = 1
                 <=> scanned_service_ids_' = {}
          /\ scanned_service_ids_' = {} => lost_alarm_' = "cancelled"
          /\ scanned_service_ids_' # {}
                 => /\ last'.ret = TRUE
                    /\ last'.calls = <<>>
                    /\ UNCHANGED <<medium_, lost_alarm_>>]_vars

\* One of two scanning service ids was stopped; the other still scans, with
\* the platform scan active and the lost alarm armed.
C10_Witness ==
    /\ last.op = "StopScanning"
    /\ last.ret = TRUE
    /\ last.calls = <<>>
    /\ Cardinality(scanned_service_ids_) = 1
    /\ last.service_id \notin scanned_service_ids_
    /\ medium_.scanning.active
    /\ lost_alarm_ = "valid"

C12_TrackerMatchesScanningSet ==
    /\ [](/\ TrackedServiceIds(discovered_peripheral_tracker_) = scanned_service_ids_
          /\ Cardinality(discovered_peripheral_tracker_.registrations)
                 = Cardinality(scanned_service_ids_))
    /\ [][(/\ last'.op = "StartScanning"
           /\ Count(last'.calls, "medium_.StartScanning") = 1
           /\ last'.failure = "medium_start_scanning")
          => /\ last'.ret = FALSE
             /\ Count(last'.calls, "lost_alarm_ = CancelableAlarm") = 0
             /\ UNCHANGED <<scanned_service_ids_, discovered_peripheral_tracker_,
                            lost_alarm_, medium_>>]_vars

\* A StartScanning reached the platform, which refused the scan, after an
\* earlier scanning period had ended.
C12_Witness ==
    /\ last.op = "StartScanning"
    /\ last.ret = FALSE
    /\ Count(last.calls, "medium_.StartScanning") = 1
    /\ scanned_service_ids_ = {}
    /\ discovered_peripheral_tracker_.registrations = {}
    /\ lost_alarm_ = "cancelled"

(***************************************************************************)
(* Properties of the fetch, checked under SpecFetch.  In a step, last'     *)
(* holds the call, the GATT answers and the calls the fetch made.          *)
(***************************************************************************)
FetchStep == last'.op = "ProcessFetchGattAdvertisementsRequest"

\* The positions of the calls of a name in a fetch's calls.
CallsOf(calls, name) == {i \in 1..Len(calls) : calls[i].name = name}

\* C13: a fetch whose ConnectToGattServer gave a valid client calls
\* Disconnect on it after its last other GATT call, before it returns.
C13_FetchAlwaysDisconnects ==
    [][(/\ FetchStep
        /\ \E i \in CallsOf(last'.calls, "ConnectToGattServer") : last'.calls[i].ok)
       => \E d \in CallsOf(last'.calls, "Disconnect") :
             \A i \in 1..Len(last'.calls) :
                last'.calls[i].name \in {"ConnectToGattServer", "DiscoverService",
                                         "GetCharacteristic", "ReadCharacteristic"}
                    => i < d]_vars

\* C14: every fetch calls RecordLastReadStatus on the result it returns.
C14_FetchAlwaysRecordsStatus ==
    [][FetchStep
       => /\ CallsOf(last'.calls, "RecordLastReadStatus") # {}
          /\ last'.ret.last_read_status # "kUnknown"]_vars

\* C15: for a slot that the result passed to a fetch already holds, the
\* fetch calls neither GetCharacteristic nor ReadCharacteristic, and the
\* returned result holds the slot with the bytes it had.
C15_FetchSkipsSlotsAlreadyRead ==
    [][FetchStep
       => \A a \in last'.passed.advertisements :
             /\ \A i \in CallsOf(last'.calls, "GetCharacteristic")
                        \cup CallsOf(last'.calls, "ReadCharacteristic") :
                    last'.calls[i].slot # a.slot
             /\ a \in last'.ret.advertisements
             /\ \A b \in last'.ret.advertisements : b.slot = a.slot => b = a]_vars

\* A fetch read a slot while the result passed in held another slot, below
\* num_slots, whose characteristic was readable with newer bytes: the slot
\* held was kept as it was.
C15_Witness ==
    /\ last.op = "ProcessFetchGattAdvertisementsRequest"
    /\ \E a \in last.passed.advertisements, b \in last.ret.advertisements :
          /\ a.slot < last.num_slots
          /\ last.remote[a.slot] = "readable"
          /\ a \in last.ret.advertisements
          /\ b \notin last.passed.advertisements
          /\ b.bytes.generation # a.bytes.generation
          /\ CallsOf(last.calls, "ReadCharacteristic") # {}

\* The fetch of this step connects, discovers the service, and every read
\* it issues succeeds.
FetchReadsAllSucceed ==
    /\ FetchStep
    /\ last'.peripheral_valid /\ radio_ /\ medium_.valid
    /\ last'.failure = "none"
    /\ \A i \in CallsOf(last'.calls, "ReadCharacteristic") : last'.calls[i].ok

\* C16: a fetch that connects, discovers the service and whose reads all
\* succeed returns, besides the slots passed in, exactly the slots below
\* num_slots whose characteristic exists, with the status success; with no
\* result passed in these are the only slots.
C16_MissingSlotsAreNotFailures ==
    [][FetchReadsAllSucceed
       => /\ last'.ret.last_read_status = "kSuccess"
          /\ SlotsRead(last'.ret)
                = SlotsRead(last'.passed)
                    \cup {slot \in RemoteSlots : /\ slot < last'.num_slots
                                                 /\ last'.remote[slot] # "absent"}
          /\ ~last'.passed.present
                => SlotsRead(last'.ret)
                     = {slot \in RemoteSlots : /\ slot < last'.num_slots
                                               /\ last'.remote[slot] # "absent"}]_vars

\* Three slots were asked for with no result passed in; only slot 1 exists
\* on the remote: the result holds slot 1 alone, with the status success.
C16_Witness ==
    /\ last.op = "ProcessFetchGattAdvertisementsRequest"
    /\ last.num_slots = 3
    /\ ~last.passed.present
    /\ last.remote = [slot \in RemoteSlots |-> IF slot = 1 THEN "readable" ELSE "absent"]
    /\ SlotsRead(last.ret) = {1}
    /\ last.ret.last_read_status = "kSuccess"
    /\ Cardinality(CallsOf(last.calls, "GetCharacteristic")) = 3

(***************************************************************************)
(* Properties of the threads, checked under SpecThreads.                   *)
(***************************************************************************)
\* The BLE thread is inside the fetcher's GATT calls.
FetchBlockedInGattCall == serial_executor_.running.pc = "gatt"

\* C17: while a fetch is blocked in a GATT call, mutex_ is not held, so
\* that the public operations and the lost sweep can lock it.
C17_FetchDoesNotHoldLock == FetchBlockedInGattCall => mutex_.owner = "none"

\* The tracker's events of this step.
TrackerStep ==
    last'.op \in {"ProcessFoundBleAdvertisement", "ProcessLostGattAdvertisements"}

\* C18: the BLE thread starts a task only when it runs none, and the task
\* it starts is the oldest one handed in: the k-th task started is the
\* k-th advertisement that arrived; while a task is inside the tracker,
\* mutex_ is held by the BLE thread, and no public operation and no lost
\* sweep runs.
C18_FoundProcessedOneAtATimeInOrder ==
    /\ [][Len(serial_executor_'.queue) < Len(serial_executor_.queue)
          => /\ serial_executor_.running = IdleThread
             /\ serial_executor_'.running.pc = "lock"
             /\ serial_executor_'.running.task = Head(serial_executor_.queue)
             /\ serial_executor_'.running.task.seq = history.found_started + 1
             /\ \A i \in 1..Len(serial_executor_'.queue) :
                    serial_executor_'.queue[i].seq > serial_executor_'.running.task.seq]_vars
    /\ [](FetchBlockedInGattCall
            => mutex_ = [owner |-> "serial_executor_", count |-> 2])
    /\ [][last'.op \in {"StartScanning", "StopScanning",
                        "ProcessLostGattAdvertisements"}
          => ~FetchBlockedInGattCall]_vars

\* A second advertisement arrived while the task of the first one is being
\* processed: it waits in the queue.
C18_Witness ==
    /\ FetchBlockedInGattCall
    /\ serial_executor_.running.task.seq = 1
    /\ Len(serial_executor_.queue) = 1
    /\ serial_executor_.queue[1].seq = 2

\* C19: every found and every lost event goes to a service id for which a
\* StartScanning has returned true and no StopScanning has returned since.
C19_NoEventAfterStopScanning ==
    [][TrackerStep
       => \A e \in last'.dispatched : e.service_id \in history.scanning]_vars

\* The BLE thread took the task of an advertisement that matched a
\* registered service id; when the task had locked mutex_, reading the
\* advertisement it was given, StopScanning had returned for the service
\* id: no event was dispatched.
C19_Witness ==
    /\ last.op = "ProcessFoundBleAdvertisement"
    /\ last.wanted
    /\ last.observed = last.advertisement_data
    /\ last.advertisement_data.service_id \notin history.scanning
    /\ last.dispatched = {}

\* C20: a lost sweep runs only while a service id is scanning: none runs
\* once the StopScanning of the last scanning service id has returned.
C20_NoLostSweepAfterLastStopScanning ==
    [][last'.op = "ProcessLostGattAdvertisements" => history.scanning # {}]_vars

(***************************************************************************)
(* Properties of the advertisement header, checked under SpecAdvertising.  *)
(***************************************************************************)
\* The regular-path StartAdvertising of the last step returned true: the
\* header it created is the one being broadcast.
HeaderCreated ==
    /\ last.op = "StartAdvertising"
    /\ last.fast_advertisement_service_uuid = ""
    /\ last.ret = TRUE

\* C21: the header a StartAdvertising has created and broadcast carries, as
\* num_slots, the number of entries the slot store holds when the header is
\* created.
C21_HeaderNumSlotsIsOccupiedSlotCount ==
    HeaderCreated =>
        /\ BroadcastHeaders # {}
        /\ \A header \in BroadcastHeaders :
             header.num_slots = Cardinality(gatt_advertisements_)

\* A header was created over a slot store whose entry an earlier
\* StartAdvertising, for another service id, had left.
C21_Witness ==
    /\ HeaderCreated
    /\ \E header \in BroadcastHeaders : header.num_slots = 1
    /\ \E e \in gatt_advertisements_ : e.service_id # last.service_id

\* The chained digest: digest0 = Hash(seed), digest_{i+1} =
\* Hash(digest_i || slot_bytes_i).
RECURSIVE ChainedDigest(_, _)
ChainedDigest(digest, slot_bytes) ==
    IF slot_bytes = <<>> THEN digest
    ELSE ChainedDigest(GenerateAdvertisementHash(<<digest, Head(slot_bytes)>>),
                       Tail(slot_bytes))

\* The slot store with the bytes of one slot replaced.
WithSlotBytes(map, slot, bytes) ==
    {IF e.slot = slot THEN [e EXCEPT !.bytes = bytes] ELSE e : e \in map}

\* The bytes a slot can hold.
SlotBytes ==
    UNION {RegularAdvertisementOf(service_id, size) :
              service_id \in ServiceIds, size \in PayloadSizes \ {0}}

\* The advertisement hash CreateAdvertisementHeader computes over a slot
\* store, for a seed and an iteration order.
HeaderHashOf(map, seed, order) ==
    CreateAdvertisementHeader(
        [This EXCEPT !.gatt_advertisements = map],
        StartAdvertisingEnv("none", CHOOSE t \in DeviceTokens : TRUE, seed, order)
    ).advertisement_hash

\* C22: the advertisement hash of the header a StartAdvertising has created
\* is the chained digest over the bytes of every entry of the slot store,
\* started from the hash of the seed; computing it again with the same seed
\* over the same slot store gives the same digest in every iteration order
\* of the store, and with the bytes of any one slot replaced by other bytes
\* it gives another digest.
C22_HeaderHashIsChainedDigest ==
    HeaderCreated =>
        /\ BroadcastHeaders # {}
        /\ \A header \in BroadcastHeaders :
             \E seed \in DummyServiceIds :
               \A order \in Orders({e.slot : e \in gatt_advertisements_}) :
                 /\ header.advertisement_hash =
                        ChainedDigest(
                            GenerateAdvertisementHash(seed),
                            [i \in 1..Len(order) |->
                                (CHOOSE e \in gatt_advertisements_ :
                                    e.slot = order[i]).bytes])
                 /\ HeaderHashOf(gatt_advertisements_, seed, order) =
                        header.advertisement_hash
                 /\ \A e \in gatt_advertisements_ :
                      \A bytes \in SlotBytes \ {e.bytes} :
                        HeaderHashOf(WithSlotBytes(gatt_advertisements_, e.slot, bytes),
                                     seed, order) # header.advertisement_hash

\* A header was created over an occupied slot with the second seed.
C22_Witness ==
    /\ HeaderCreated
    /\ gatt_advertisements_ # {}
    /\ \E header \in BroadcastHeaders :
         header.advertisement_hash =
             ChainedDigest(GenerateAdvertisementHash("d2"),
                           <<(CHOOSE e \in gatt_advertisements_ : e.slot = 0).bytes>>)

(***************************************************************************)
(* Properties of InternalReadAdvertisementFromGattServerLocked, checked    *)
(* under SpecFetch.                                                        *)
(***************************************************************************)
\* The fetch of this step passed the fetcher's checks and asked the
\* platform for a GATT client.
FetchConnects ==
    /\ FetchStep
    /\ CallsOf(last'.calls, "ConnectToGattServer") # {}

\* The fetch of this step got a valid GATT client and discovered the service.
FetchDiscovered ==
    /\ \E i \in CallsOf(last'.calls, "ConnectToGattServer") : last'.calls[i].ok
    /\ \E i \in CallsOf(last'.calls, "DiscoverService") : last'.calls[i].ok

RegularPathTaken ==
    /\ last'.op = "StartAdvertising"
    /\ last'.fast_advertisement_service_uuid = ""
    /\ ~StartAdvertisingRefused
    /\ last'.failure # "advertisement_invalid"

\* The positions of a platform call in the calls of an operation.
Positions(calls, name) == {i \in 1..Len(calls) : calls[i] = name}

\* C30: a regular-path StartAdvertising that passes the validation asks the
\* platform for a GATT server exactly once, after it has released the
\* server it found running, if any; the server the medium owns when the
\* call returns, if any, is the one this call started: it hosts the slot-0
\* characteristic with this call's advertisement and nothing else.
C30_FreshGattServerPerRegularStart ==
    [][RegularPathTaken
       => /\ Cardinality(Positions(last'.calls, "StartGattServer")) = 1
          /\ (gatt_server_.present /\ gatt_server_.valid)
                => \E stop \in Positions(last'.calls, "gatt_server_.reset") :
                      \A start \in Positions(last'.calls, "StartGattServer") :
                         stop < start
          /\ gatt_server_'.present
                => /\ Cardinality(gatt_server_'.characteristics) = 1
                   /\ CharacteristicValues(gatt_server_', 0) # {}
                   /\ CharacteristicValues(gatt_server_', 0)
                         \subseteq RegularAdvertisementOf(last'.service_id,
                                                          last'.size)]_vars

\* A StartAdvertising returned true after releasing the server a
\* StartAdvertising for another service id had started.
C30_Witness ==
    /\ last.op = "StartAdvertising"
    /\ last.fast_advertisement_service_uuid = ""
    /\ last.ret = TRUE
    /\ Len(last.calls) >= 2
    /\ last.calls[1] = "gatt_server_.reset"
    /\ last.calls[2] = "StartGattServer"
    /\ gatt_server_.present
    /\ Cardinality(advertising_service_ids_) = 2

(***************************************************************************)
(* Properties of the FakeTaskRunner, checked under SpecTaskRunner.         *)
(***************************************************************************)
\* The tasks a thread has started.
Ran == {history.ran[i] : i \in 1..Len(history.ran)}

\* No task has been started twice.
RanOnce ==
    \A i, j \in 1..Len(history.ran) : history.ran[i] = history.ran[j] => i = j

\* The tasks in a sequence of tasks.
TasksIn(tasks) == {tasks[i] : i \in 1..Len(tasks)}

\* C25: with a concurrency count of 1, at most one task is running at a
\* time; the tasks posted with PostTask in active mode are started in the
\* order of their posts, none twice; and when Sync or
\* WaitForRunningTasksWithTimeout has returned, no task is running and
\* every task posted in active mode has run and is not in the pending list.
C25_ActiveTasksRunOneAtATimeInPostingOrder ==
    /\ Cardinality(task_runner.threads_) <= 1
    /\ RanOnce
    /\ \A i, j \in 1..Len(history.ran) :
          (/\ i < j
           /\ history.ran[i].posted_in = "kActive"
           /\ history.ran[j].posted_in = "kActive")
          => history.ran[i].id < history.ran[j].id
    /\ last.op = "Sync"
          => /\ task_runner.threads_ = {}
             /\ \A task \in history.posted :
                   task.posted_in = "kActive"
                   => /\ task \in Ran
                      /\ task \notin TasksIn(GetAllPendingTasks(task_runner))

\* Sync has returned after two tasks posted in active mode ran, the first
\* posted first, while a third post was never made.
C25_Witness ==
    /\ last.op = "Sync"
    /\ task_runner.mode_ = "kActive"
    /\ Len(history.ran) = 2
    /\ history.ran[1].posted_in = "kActive"
    /\ history.ran[2].posted_in = "kActive"
    /\ history.ran[1].id = 1

\* C26: in pending mode a PostTask adds its task at the end of the pending
\* list and a FastForward moves the tasks of the timers that are due from
\* the delayed tasks to the pending list, and neither these nor a
\* PostDelayedTask hands a task to a thread; RunNextPendingTask takes the
\* oldest pending task, and only it, off the list and hands it to the
\* thread; RunAllPendingTasks leaves the list empty and hands the tasks
\* over in the list's order; no task is started twice, and when Sync has
\* returned every task handed over has run.
C26_PendingModeHoldsTasks ==
    [][/\ (task_runner.mode_ = "kPending" /\ last'.op = "PostTask")
            => /\ Len(task_runner'.pending_tasks_)
                     = Len(task_runner.pending_tasks_) + 1
               /\ SubSeq(task_runner'.pending_tasks_, 1,
                         Len(task_runner.pending_tasks_))
                     = task_runner.pending_tasks_
               /\ task_runner'.pending_tasks_[Len(task_runner'.pending_tasks_)]
                     \in history'.posted \ history.posted
               /\ task_runner'.queued_tasks_ = task_runner.queued_tasks_
               /\ task_runner'.threads_ = task_runner.threads_
       /\ (task_runner.mode_ = "kPending" /\ last'.op = "PostDelayedTask")
            => /\ task_runner'.pending_tasks_ = task_runner.pending_tasks_
               /\ task_runner'.queued_tasks_ = task_runner.queued_tasks_
               /\ task_runner'.threads_ = task_runner.threads_
       /\ (task_runner.mode_ = "kPending" /\ last'.op = "FastForward")
            => /\ task_runner'.queued_tasks_ = task_runner.queued_tasks_
               /\ task_runner'.threads_ = task_runner.threads_
               /\ TasksIn(task_runner'.pending_tasks_)
                     = TasksIn(task_runner.pending_tasks_)
                          \cup {t.task : t \in DueTimers(task_runner,
                                                         task_runner'.clock_)}
               /\ GetAllDelayedTasks(task_runner')
                     = GetAllDelayedTasks(task_runner)
                          \ {t.task : t \in DueTimers(task_runner,
                                                      task_runner'.clock_)}
       /\ (last'.op = "RunNextPendingTask" /\ task_runner.pending_tasks_ # <<>>)
            => /\ task_runner'.pending_tasks_ = Tail(task_runner.pending_tasks_)
               /\ task_runner'.queued_tasks_
                     = Append(task_runner.queued_tasks_,
                              Head(task_runner.pending_tasks_))
       /\ last'.op = "RunAllPendingTasks"
            => /\ task_runner'.pending_tasks_ = <<>>
               /\ task_runner'.queued_tasks_
                     = task_runner.queued_tasks_ \o task_runner.pending_tasks_
       /\ RanOnce'
       /\ last'.op = "Sync"
            => \A task \in history.posted :
                  \/ task \in Ran
                  \/ task \in TasksIn(task_runner.pending_tasks_)
                  \/ task \in GetAllDelayedTasks(task_runner)]_vars

\* In pending mode RunAllPendingTasks has emptied a pending list that held
\* a posted task and a delayed task the clock had moved there.
C26_Witness ==
    /\ last.op = "RunAllPendingTasks"
    /\ task_runner.mode_ = "kPending"
    /\ task_runner.pending_tasks_ = <<>>
    /\ Len(task_runner.queued_tasks_) = 2
    /\ \E i \in 1..2 : task_runner.queued_tasks_[i].posted_in = "kPending"
    /\ \E i \in 1..2 : task_runner.queued_tasks_[i].posted_in = "timer"
    /\ history.ran = <<>>

\* The tasks the runner holds outside its timers, and those it has started.
TasksOutOfTimerControl ==
    TasksIn(task_runner.pending_tasks_) \cup TasksIn(task_runner.queued_tasks_)
        \cup task_runner.threads_ \cup Ran

\* C27: PostDelayedTask puts its task among the delayed tasks and nowhere
\* else; a delayed task stays there, and is not run, until a FastForward
\* brings the clock to the instant of its post plus its delay, and leaves
\* at that instant, handed over to run; it is not started twice; the task
\* a running delayed task posts is held from the instant of that post for
\* its own delay.
C27_DelayedTaskHeldForItsDelay ==
    [][/\ last'.op = "PostDelayedTask"
            => /\ \E task \in history'.posted \ history.posted :
                     GetAllDelayedTasks(task_runner')
                        = GetAllDelayedTasks(task_runner) \cup {task}
               /\ task_runner'.pending_tasks_ = task_runner.pending_tasks_
               /\ task_runner'.queued_tasks_ = task_runner.queued_tasks_
       /\ \A timer \in task_runner.queued_delayed_tasks_ :
             timer \notin task_runner'.queued_delayed_tasks_
             => /\ last'.op = "FastForward"
                /\ task_runner'.clock_ >= timer.posted_at + timer.task.delay
                /\ timer.task \in TasksIn(task_runner'.pending_tasks_)
                                    \cup TasksIn(task_runner'.queued_tasks_)
       /\ \A timer \in task_runner'.queued_delayed_tasks_ :
             /\ task_runner'.clock_ < timer.posted_at + timer.task.delay
             /\ timer.task \notin TasksOutOfTimerControl'
       /\ RanOnce'
       /\ \A task \in task_runner.threads_ :
             (last'.op = "TaskReturns" /\ task.reposts)
             => \E timer \in task_runner'.queued_delayed_tasks_ :
                   /\ timer.task.child
                   /\ timer.task.id = task.id
                   /\ timer.posted_at = task_runner.clock_
                   /\ timer \notin task_runner.queued_delayed_tasks_]_vars

\* A delayed task ran after its delay and posted a child, and the child ran
\* after a further delay, in active mode.
C27_Witness ==
    /\ Len(history.ran) = 2
    /\ history.ran[1].reposts
    /\ history.ran[2].child
    /\ history.ran[2].id = history.ran[1].id
    /\ task_runner.clock_ = 2
    /\ task_runner.queued_delayed_tasks_ = {}
    /\ task_runner.mode_ = "kActive"

(***************************************************************************)
(* Properties of the lost sweep, checked under SpecThreads.                *)
(***************************************************************************)
LostSweep == last'.op = "ProcessLostGattAdvertisements"

LostServiceIds(events) == {e.service_id : e \in events}

\* C24: a lost sweep reports lost only service ids the peripheral has been
\* reported found for and is still present for; when the peripheral has
\* timed out, every registered service id it is present for gets exactly
\* one lost event and the presence records are removed, so that a later
\* sweep has nothing left to report for them; otherwise the sweep reports
\* nothing and leaves the records alone.
C24_LostOnceAfterFoundThenRemoved ==
    [][LostSweep =>
        LET tracker == discovered_peripheral_tracker_
            lost == LostServiceIds(last'.dispatched)
        IN  /\ \A e \in last'.dispatched : e.event = "lost"
            /\ Cardinality(last'.dispatched) = Cardinality(lost)
            /\ lost \subseteq tracker.found
            /\ lost # {} => history.found_started > 0
            /\ lost \cap discovered_peripheral_tracker_'.found = {}
            /\ \/ lost = {} /\ discovered_peripheral_tracker_' = tracker
               \/ /\ lost = tracker.found \cap TrackedServiceIds(tracker)
                  /\ discovered_peripheral_tracker_'.found = {}
            /\ tracker.found = {} => lost = {}]_vars

C24_Witness ==
    /\ last.op = "ProcessLostGattAdvertisements"
    /\ last.dispatched # {}
    /\ discovered_peripheral_tracker_.found = {}
    /\ history.found_started > 0

(***************************************************************************)
(* Properties of discovery, checked under SpecDiscovery.                   *)
(***************************************************************************)
ScanCycleStep == last'.op = "ScanCycle"

FastAdvertising(advertisement) ==
    /\ advertisement.kind = "advertising"
    /\ kFastAdvertisementServiceUuid \in advertisement.advertising_data.service_uuids

RegularAdvertising(advertisement) ==
    /\ advertisement.kind = "advertising"
    /\ kCopresenceServiceUuid \in advertisement.scan_response_data.service_uuids

\* C28: in a scan cycle the platform reports the advertiser to the scanner
\* exactly when the scan asked for a service uuid the advertisement
\* carries: a fast advertisement is reported to a scan for the fast
\* advertisement service uuid and a regular one to a scan for the
\* copresence service uuid, a fast advertisement is not reported to a scan
\* for the copresence uuid alone nor a regular one to a scan for the fast
\* uuid alone, and without a report nothing reaches the scanner's callbacks.
C28_ReportedIffScannedUuidCarried ==
    [][ScanCycleStep =>
        LET advertisement == medium_.advertising
            scanned == medium_.scanning.service_uuids
        IN  /\ last'.reported <=>
                  \/ /\ FastAdvertising(advertisement)
                     /\ scanned = <<kFastAdvertisementServiceUuid>>
                  \/ /\ RegularAdvertising(advertisement)
                     /\ scanned = <<kCopresenceServiceUuid>>
            /\ last'.reported <=>
                  \E i \in 1..Len(scanned) :
                      scanned[i] \in CarriedServiceUuids(advertisement)
            /\ ~last'.reported =>
                  /\ last'.dispatched = {}
                  /\ UNCHANGED discovered_peripheral_tracker_
                  /\ ~crashed']_vars

C28_Witness ==
    /\ last.op = "ScanCycle"
    /\ ~last.reported
    /\ FastAdvertising(medium_.advertising)
    /\ medium_.scanning.service_uuids = <<kCopresenceServiceUuid>>

\* What C23 asks of a scan cycle for service id s advertised with the fast
\* advertisement service uuid f, when the scanner is registered for (s, f)
\* and the platform reports the advertiser.
FoundOnceWithOriginalPayload(s, f) ==
    LET tracker == discovered_peripheral_tracker_
        events == {e \in last'.dispatched : e.service_id = s}
    IN  ([service_id |-> s, fast_advertisement_service_uuid |-> f]
             \in tracker.registrations /\ last'.reported) =>
            /\ ~crashed'
            /\ s \in discovered_peripheral_tracker_'.found
            /\ s \notin tracker.found =>
                  /\ Cardinality(events) = 1
                  /\ \A e \in events : /\ e.payload.kind = "ble_advertisement"
                                       /\ e.payload.data = DiscoveryPayload
            /\ s \in tracker.found => events = {}

\* C23: in the scan cycle that follows a StartAdvertising(s, payload) that
\* returned true, a scanner scanning for s gets exactly one found event for
\* s, with the original payload, unless it has got it before; and a further
\* scan cycle with the same advertisement dispatches nothing again.
C23_FoundExactlyOnceEndToEnd ==
    [][ScanCycleStep =>
        /\ (last.op = "StartAdvertising" /\ last.ret) =>
              FoundOnceWithOriginalPayload(last.service_id,
                                           last.fast_advertisement_service_uuid)
        /\ last.op = "ScanCycle" =>
              \A e \in last'.dispatched :
                  \A d \in last.dispatched : e.service_id # d.service_id]_vars

(***************************************************************************)
(* Further properties of the advertising state, checked under               *)
(* SpecAdvertising.                                                         *)
(***************************************************************************)
\* C31: whenever a characteristic is hosted, a GATT server object is
\* present, so that the clearing loop of StopAdvertising has a server to
\* call; and no StopAdvertising dies in that loop.
C31_HostedCharacteristicsHaveServer ==
    /\ hosted_gatt_characteristics_ # {} => gatt_server_.present
    /\ last.op = "StopAdvertising" => ~crashed

\* C32: a StartAdvertising with a fast advertisement service uuid, whatever
\* it returns, leaves the GATT server, the slot store and the hosted
\* characteristics as they were.
C32_FastPathLeavesGattStateAlone ==
    [][(/\ last'.op = "StartAdvertising"
        /\ last'.fast_advertisement_service_uuid # "")
       => UNCHANGED <<gatt_server_, gatt_advertisements_,
                      hosted_gatt_characteristics_>>]_vars

\* C34: while a service id is advertising the platform is advertising, and
\* a StopAdvertising that leaves another service id advertising leaves the
\* platform advertisement and the slot entries of the other service ids as
\* they were.
C34_OtherAdvertisersKeepAdvertising ==
    /\ [](~crashed =>
            (advertising_service_ids_ # {}
                => medium_.advertising.kind = "advertising"))
    /\ [][(/\ last'.op = "StopAdvertising"
           /\ ~crashed'
           /\ advertising_service_ids_' # {})
          => /\ UNCHANGED <<medium_>>
             /\ \A e \in gatt_advertisements_ :
                   e.service_id # last'.service_id
                      => e \in gatt_advertisements_']_vars

\* The running GATT server serves a characteristic that holds the medium
\* advertisement of a service id.
ServesAdvertisementOf(gatt_server, service_id) ==
    /\ gatt_server.present
    /\ gatt_server.valid
    /\ \E c \in gatt_server.characteristics :
          /\ c.value.kind = "ble_advertisement"
          /\ c.value.service_id_hash = GenerateHash(service_id)

\* C35: a regular-path StartAdvertising for one service id leaves the
\* advertisement of every other advertising service id readable: if the
\* running GATT server served it before the call, the running GATT server
\* serves it after the call.
C35_RegularStartKeepsOthersReadable ==
    [][(/\ last'.op = "StartAdvertising"
        /\ last'.fast_advertisement_service_uuid = "")
       => \A s \in advertising_service_ids_ \cap advertising_service_ids_' :
             (/\ s # last'.service_id
              /\ ServesAdvertisementOf(gatt_server_, s))
                => ServesAdvertisementOf(gatt_server_', s)]_vars

(***************************************************************************)
(* Further properties of the scanning state, checked under SpecScanning.   *)
(***************************************************************************)
\* The service uuid StartScanning asks the platform for on behalf of a
\* registration.
ScanUuidOf(registration) ==
    IF registration.fast_advertisement_service_uuid # ""
    THEN registration.fast_advertisement_service_uuid
    ELSE kCopresenceServiceUuid

\* C33: whenever the platform scan is active, the service uuids it scans
\* for include the scan uuid of every service id in the scanning set.
C33_ScanFilterCoversEveryScanner ==
    medium_.scanning.active =>
        \A r \in discovered_peripheral_tracker_.registrations :
            r.service_id \in scanned_service_ids_ =>
                ScanUuidOf(r) \in ScannedServiceUuids(medium_.scanning)

(***************************************************************************)
(* Further properties of the fetch, checked under SpecFetch.               *)
(***************************************************************************)
\* The fetch returns before the loop over the slots.
FetchReturnsEarly ==
    \/ ~last'.peripheral_valid
    \/ ~radio_
    \/ ~IsAvailableLocked(This)
    \/ last'.failure # "none"

\* C36: a fetch returns a result that is present, in which every slot of
\* the result passed in is there with the bytes it had, no slot has two
\* entries, and every slot added is one of 0 .. num_slots - 1; a fetch that
\* returns early (invalid peripheral, radio disabled, transport unavailable,
\* connect or discovery failed) adds no slot; without a result passed in,
\* the result is a fresh one holding what this fetch has read.
C36_FetchOnlyGrowsResult ==
    [][FetchStep =>
        LET passed == last'.passed
            ret == last'.ret
            added == ret.advertisements \ passed.advertisements
        IN  /\ ret.present
            /\ ret = advertisement_read_results_'
            /\ passed.advertisements \subseteq ret.advertisements
            /\ \A a, b \in ret.advertisements : a.slot = b.slot => a = b
            /\ \A a \in added : a.slot \in 0..(last'.num_slots - 1)
            /\ FetchReturnsEarly => added = {}
            /\ ~passed.present => ret.advertisements = added]_vars

\* A fetch was handed a result holding a slot and has added another slot.
C36_Witness ==
    /\ last.op = "ProcessFetchGattAdvertisementsRequest"
    /\ last.passed.present
    /\ last.passed.advertisements # {}
    /\ last.passed.advertisements \subseteq last.ret.advertisements
    /\ last.ret.advertisements # last.passed.advertisements

(***************************************************************************)
(* Properties of the destructor, checked under SpecDestructor.             *)
(***************************************************************************)
\* The service ids the destructor still has to stop.
LeftToStop == Cardinality(scanned_service_ids_) + Cardinality(advertising_service_ids_)

\* The step is an iteration of one of the destructor's stop loops.
DestructorIteration == last'.op = "~BleV2" /\ last'.calls # ShutdownCalls

\* C37: every iteration of the destructor's stop loops returns and removes
\* one service id, whatever the platform's stop call returns; a destructor
\* that has begun returns; and when it has returned the scanning set and
\* the advertising set are empty, the tracker holds no registration and no
\* lost alarm is armed.
C37_DestructorTerminatesWithEverythingStopped ==
    /\ [][DestructorIteration
            => /\ ~crashed'
               /\ last'.returned
               /\ LeftToStop' = LeftToStop - 1]_vars
    /\ [](Destroyed
            => /\ scanned_service_ids_ = {}
               /\ advertising_service_ids_ = {}
               /\ discovered_peripheral_tracker_.registrations = {}
               /\ lost_alarm_ # "valid")
    /\ (InDestructor ~> Destroyed)

====
